---- MODULE Spec2Model ----
(***************************************************************************)
(* Model of the mainstay attestation service: the driver state machine of  *)
(* attestation/attestservice.go (src/unnamed/part_000), the Mongo store    *)
(* layer it persists to (src/main/requestroutes.go, package server) and    *)
(* the collaborators it calls (wallet, signers, fee policy).               *)
(*                                                                         *)
(* Time is in seconds.  A driver tick is one iteration of the Run loop:    *)
(* the timer fires after attestDelay, doAttestation runs one state handler *)
(* to completion, then the regtest override is applied.                    *)
(***************************************************************************)
EXTENDS Integers, Sequences, FiniteSets, TLC

\* ------------------------------------------------------------------------
\* Bounds of the model
\* ------------------------------------------------------------------------
\* number of client slots of the LatestCommitment collection
MaxClients == 1
\* client commitments are drawn from 1..MaxCommit
MaxCommit == 2
\* number of attestation transactions that may be mined on top of the start
MaxMined == 1
\* extra seconds a timer wake-up may be late by
MaxLatency == 1
\* number of faults (failing calls, missing signatures, kills, mempool drops)
MaxFaults == 1

\* ------------------------------------------------------------------------
\* Program constants (attestservice.go)
\* ------------------------------------------------------------------------
ASTATE_ERROR == -1
ASTATE_INIT == 0
ASTATE_NEXT_COMMITMENT == 1
ASTATE_NEW_ATTESTATION == 2
ASTATE_SIGN_ATTESTATION == 3
ASTATE_PRE_SEND_STORE == 4
ASTATE_SEND_ATTESTATION == 5
ASTATE_AWAIT_CONFIRMATION == 6
ASTATE_HANDLE_UNCONFIRMED == 7

WARNING_INVALID_ATIME_NEW_ATTESTATION_ARG ==
    "Warning - Invalid new attestation time argument"
WARNING_INVALID_ATIME_HANDLE_UNCONFIRMED_ARG ==
    "Warning - Invalid handle unconfirmed time argument"
ERROR_UNSPENT_NOT_FOUND == "No valid unspent found"

ATIME_FIXED == 5
ATIME_SIGS == 60
ATIME_CONFIRMATION == 900
DEFAULT_ATIME_NEW_ATTESTATION == 3600
DEFAULT_ATIME_HANDLE_UNCONFIRMED == 3600
\* Run: attestDelay before the first tick, and the regtest override
ATIME_STARTUP == 30
ATIME_REGTEST == 10

\* the nil error
NIL == "nil"

\* mongo.ErrNoDocuments
ErrNoDocuments == "mongo: no documents in result"

\* ------------------------------------------------------------------------
\* Fee policy (AttestFees; the spec's Fee Policy)
\* ------------------------------------------------------------------------
FeeMin == 1
FeeMax == 3
FeeIncrement == 1

\* reset returns to a baseline, higher in regtest
FeeBaseline(regtest) == IF regtest THEN FeeMin + FeeIncrement ELSE FeeMin

Min(a, b) == IF a < b THEN a ELSE b
Max(a, b) == IF a > b THEN a ELSE b

\* mutant: a bump that is not clamped to the maximum
BumpFee_Unclamped(fee) == fee + FeeIncrement

\* bump adds the increment, clamped to max
BumpFee(fee) == Min(fee + FeeIncrement, FeeMax)

ResetFee(regtest) == FeeBaseline(regtest)

\* ------------------------------------------------------------------------
\* Hashes, commitments, transactions
\* ------------------------------------------------------------------------
\* chainhash.Hash{} as a commitment root
ZeroRoot == 0

\* Merkle root over the ordered leaves: an injective positional encoding
\* (leaves are in 1..MaxCommit < 4); no leaves give the zero hash
RECURSIVE MerkleRoot(_)
MerkleRoot(leaves) ==
    IF leaves = <<>> THEN ZeroRoot
    ELSE LET n == Len(leaves)
             front == SubSeq(leaves, 1, n - 1)
         IN (IF n = 1 THEN 1 ELSE MerkleRoot(front)) * 4 + leaves[n]

\* models.Commitment.GetCommitmentHash
GetCommitmentHash(commitment) == MerkleRoot(commitment)

\* models.NewCommitment: fails on an empty list of client commitments
NewCommitment(commitmentHashes) ==
    IF commitmentHashes = <<>>
    THEN [err |-> "empty commitment list", commitment |-> <<>>]
    ELSE [err |-> NIL, commitment |-> commitmentHashes]

\* chainhash.Hash{} as a txid
ZeroTxid == <<>>

\* wire.MsgTx{}: the empty transaction of a default attestation.
\*   prev   txid of the staychain output the input spends
\*   topup  whether a second input spends the topup unspent
\*   payto  address of the single output
\*   fee    fee rate the output value was computed with
\*   signed whether the input scriptSigs are filled in; script is then the
\*          commitment root the previous redeem script was rebuilt from and
\*          sigs tells whether the signers' signatures were in the scriptSig
NoTx == [prev |-> ZeroTxid, topup |-> FALSE, payto |-> <<>>, fee |-> 0,
         signed |-> FALSE, script |-> ZeroRoot, sigs |-> FALSE]

\* MsgTx.TxHash: the double-SHA of the serialised transaction, scriptSigs
\* included; collision-free, so the txid is the tagged content of the tx
TxHash(tx) ==
    <<tx.prev, tx.topup, tx.payto, tx.fee, tx.signed, tx.script, tx.sigs>>

\* AttestClient.GetNextAttestationKey: the base key tweaked by the root
GetNextAttestationKey(hash) == <<"key", hash>>

\* AttestClient.GetNextAttestationAddr: the pay-to address of the tweaked key
GetNextAttestationAddr(key, hash) == <<"addr", key[2]>>

\* the funding transaction pays to the untweaked init script
FundingTx ==
    [NoTx EXCEPT !.payto = GetNextAttestationAddr(GetNextAttestationKey(ZeroRoot), ZeroRoot),
                 !.signed = TRUE, !.sigs = TRUE]

\* config.InitTx: the txid of the funding transaction
InitTxid == TxHash(FundingTx)

\* the transaction with its input scriptSigs cleared
Unsigned(tx) == [tx EXCEPT !.signed = FALSE, !.script = ZeroRoot, !.sigs = FALSE]

\* ------------------------------------------------------------------------
\* State
\* ------------------------------------------------------------------------
VARIABLES
    config,                 \* [regtest, newAttestationMinutes, handleUnconfirmedMinutes]
    atimeNewAttestation,    \* delay between attestations
    atimeHandleUnconfirmed, \* delay until handling unconfirmed
    proc,                   \* "running", "crashed" (the process panicked), "killed"
                            \* (the process was killed inside a handler), "cancelled"
                            \* (ctx is done, Run has not seen it yet), "exited",
                            \* "starting" (before NewAttestService), "aborted"
                            \* (log.Fatalf in NewAttestService, or NewConfig returned
                            \* an error) or "unconfigured" (before NewConfig)
    state,                  \* AttestService.state
    attestation,            \* AttestService.attestation
    errorState,             \* AttestService.errorState
    attestDelay,            \* delay before the next tick
    sinceConfirm,           \* time.Since(confirmTime) while awaiting confirmation
    currentFee,             \* AttestClient.Fees current fee rate
    attestationCol,         \* collection Attestation, oldest inserted_at first; id is
                            \* a document's place in the natural order
    merkleCommitmentCol,    \* collection MerkleCommitment
    latestCommitmentCol,    \* collection LatestCommitment
    mempool,                \* the wallet's unconfirmed attestation transactions
    chain,                  \* the mined staychain transactions, tip last
    topupUnspent,           \* whether the wallet holds a topup unspent
    faultsLeft,             \* how many more faults the environment may inject
    last,                   \* the last tick: the handler run, the time since confirmTime,
                            \* the injected fault, the collaborator calls made, and the
                            \* attestation and fee rate the tick started with
    hist,                   \* events observed by store, wallet and signers so far
    startupLog,             \* the warnings NewAttestService logged
    confFile                \* the configuration file, NIL when the model starts with
                            \* the Config already loaded

cfgVars == <<config, atimeNewAttestation, atimeHandleUnconfirmed, startupLog, confFile>>
svcVars == <<proc, state, attestation, errorState, attestDelay, sinceConfirm, currentFee>>
storeVars == <<attestationCol, merkleCommitmentCol, latestCommitmentCol>>
walletVars == <<mempool, chain, topupUnspent>>
vars == <<cfgVars, svcVars, storeVars, walletVars, faultsLeft, last, hist>>

\* ------------------------------------------------------------------------
\* models.Attestation
\* ------------------------------------------------------------------------
\* models.NewAttestationDefault
NewAttestationDefault ==
    [Txid |-> ZeroTxid, Tx |-> NoTx, commitment |-> <<>>, Confirmed |-> FALSE,
     BlockHash |-> 0]

\* models.NewAttestation
NewAttestation(txid, commitment) ==
    [NewAttestationDefault EXCEPT !.Txid = txid, !.commitment = commitment]

\* Attestation.CommitmentHash: zero hash while no commitment is set
CommitmentHash(a) == GetCommitmentHash(a.commitment)

\* Attestation.UpdateInfo: copy the block metadata of the wallet transaction
UpdateInfo(a, walletTx) == [a EXCEPT !.BlockHash = walletTx.BlockHash]

\* ------------------------------------------------------------------------
\* Store: DbMongo (package server)
\* ------------------------------------------------------------------------
\* the leaves of a set of commitment documents sorted by client_position
RECURSIVE SortedByPosition(_)
SortedByPosition(docs) ==
    IF docs = {} THEN <<>>
    ELSE LET d == CHOOSE x \in docs : \A y \in docs : x.client_position <= y.client_position
         IN <<d.commitment>> \o SortedByPosition(docs \ {d})

\* mutant: the upsert filter is the txid alone
saveAttestation_KeyedByTxid(col, a, confirmed) ==
    LET Matches(d) == d.txid = a.Txid
        old == SelectSeq(col, Matches)
        doc == [txid |-> a.Txid, merkle_root |-> CommitmentHash(a), confirmed |-> confirmed,
                id |-> IF old = <<>> THEN Len(col) + 1 ELSE old[1].id]
    IN Append(SelectSeq(col, LAMBDA d : ~Matches(d)), doc)

\* DbMongo.saveAttestation: upsert keyed by (txid, merkle_root).  The
\* collection is kept as the sequence of its documents by inserted_at, oldest
\* first; id is the place of a document in the natural order of the
\* collection, which is the order of creation.  An update sets inserted_at to
\* now, which makes the document the newest one, and leaves it at its place
\* in the natural order; an insert puts the document last in both orders.
saveAttestation(col, a, confirmed) ==
    LET Matches(d) == d.txid = a.Txid /\ d.merkle_root = CommitmentHash(a)
        old == SelectSeq(col, Matches)
        doc == [txid |-> a.Txid, merkle_root |-> CommitmentHash(a), confirmed |-> confirmed,
                id |-> IF old = <<>> THEN Len(col) + 1 ELSE old[1].id]
    IN Append(SelectSeq(col, LAMBDA d : ~Matches(d)), doc)

\* DbMongo.saveMerkleCommitments: upsert keyed by (merkle_root, client_position)
saveMerkleCommitments(col, merkleRoot, commitments) ==
    {d \in col : d.merkle_root # merkleRoot \/ d.client_position >= Len(commitments)}
    \cup {[merkle_root |-> merkleRoot, client_position |-> pos - 1,
            commitment |-> commitments[pos]] : pos \in 1..Len(commitments)}

\* DbMongo.getLatestAttestedCommitmentHash: the merkle_root of the document
\* with the greatest inserted_at, whatever its confirmed flag
getLatestAttestedCommitmentHash(col) ==
    IF col = <<>>
    THEN [err |-> ErrNoDocuments, hash |-> ZeroRoot]
    ELSE [err |-> NIL, hash |-> col[Len(col)].merkle_root]

\* DbMongo.getLatestCommitment: all LatestCommitment documents by position
getLatestCommitment(latestCol) == NewCommitment(SortedByPosition(latestCol))

\* DbMongo.getAttestationCommitment: find the attestation by txid (FindOne
\* without a sort: the first match in the natural order, which is taken to be
\* the order in which the documents were created), then read the commitments
\* of its merkle_root from the LatestCommitment collection
getAttestationCommitment(col, latestCol, attestationHash) ==
    LET found == SelectSeq(col, LAMBDA d : d.txid = attestationHash)
        first == CHOOSE i \in 1..Len(found) : \A j \in 1..Len(found) : found[i].id <= found[j].id
    IN IF found = <<>>
       THEN [err |-> ErrNoDocuments, commitment |-> <<>>]
       ELSE LET merkle_root == found[first].merkle_root
                res == {d \in latestCol : d.merkle_root = merkle_root}
            IN NewCommitment(SortedByPosition(res))

\* ------------------------------------------------------------------------
\* Collaborator calls.  A handler works on a record w of everything a tick
\* may change; every collaborator call appends one event to w.log and
\* extends the history of externally observed events w.hist.
\* f names the collaborator call that fails in this tick (NIL: none fails).
\* ------------------------------------------------------------------------
Ev(op, txid, root, flag, err) ==
    [op |-> op, txid |-> txid, root |-> root, flag |-> flag, err |-> err]

\* what a handler does after the process was killed: nothing; otherwise it
\* goes on from w to rest.  (Where it is used, w is bound once to the world
\* the handler has reached: CHOOSE r \in {Alive(v, ...) : v \in {world}} : TRUE
\* is Alive(world, ...).)
Alive(w, rest) == IF w.killed THEN w ELSE rest

\* w.kill names the call at whose return the process is killed in this tick,
\* if any (SIGKILL, power loss): nothing of the handler happens after it
Call(w, ev) ==
    CHOOSE r \in {Alive(v, [v EXCEPT !.log = Append(@, e),
                                     !.killed = (v.kill = "kill:" \o e.op)]) :
                  v \in {w}, e \in {ev}} : TRUE

\* the error returned by the most recent collaborator call
LastErr(w) == w.log[Len(w.log)].err

\* the error a failing call returns, by collaborator
ErrorOf(call) ==
    IF call \in {"GetAttestationCommitment", "GetClientCommitment",
                 "GetLatestAttestationCommitmentHash", "UpdateLatestAttestation"}
    THEN "store error"
    ELSE IF call \in {"GetNextAttestationKey", "GetNextAttestationAddr",
                      "createAttestation", "signAttestation", "bumpAttestationFees"}
    THEN "client error"
    ELSE "rpc error"

Fault(f, call) == IF f = call THEN ErrorOf(call) ELSE NIL

\* the wallet knows the mined staychain transactions and its mempool
WalletTxs(w) ==
    {[tx |-> t, BlockHash |-> 0] : t \in w.mempool}
    \cup {chain[i] : i \in 1..Len(chain)}

\* AttestClient.getUnconfirmedTx: a wallet-owned attestation tx in the mempool
getUnconfirmedTx(w) ==
    IF w.mempool = {} THEN [found |-> FALSE, txid |-> ZeroTxid]
    ELSE [found |-> TRUE, txid |-> TxHash(CHOOSE t \in w.mempool : TRUE)]

\* the wallet outcome, chosen per tick like a failing call, in which the
\* wallet does not list the staychain output among its unspents
NO_UNSPENT == "no unspent"

\* AttestClient.findLastUnspent: the staychain tip, unless the mempool spends
\* it or the wallet does not list it
findLastUnspent(w, f) ==
    IF \/ chain = <<>>
       \/ \E t \in w.mempool : t.prev = TxHash(chain[Len(chain)].tx)
       \/ f = NO_UNSPENT
    THEN [found |-> FALSE, unspent |-> [TxID |-> ZeroTxid]]
    ELSE [found |-> TRUE, unspent |-> [TxID |-> TxHash(chain[Len(chain)].tx)]]

\* AttestClient.findTopupUnspent
findTopupUnspent(w) ==
    IF topupUnspent /\ ~(\E t \in w.mempool : t.topup)
    THEN [found |-> TRUE, unspent |-> [TxID |-> <<"topup">>]]
    ELSE [found |-> FALSE, unspent |-> [TxID |-> ZeroTxid]]

\* rpcclient.GetRawTransaction
GetRawTransaction(w, f, txid) ==
    LET known == {x \in WalletTxs(w) : TxHash(x.tx) = txid}
    IN IF f = "GetRawTransaction" \/ known = {}
       THEN [err |-> ErrorOf("GetRawTransaction"), tx |-> NoTx]
       ELSE [err |-> NIL, tx |-> (CHOOSE x \in known : TRUE).tx]

\* rpcclient.GetTransaction: the block hash is empty until the tx is mined
GetTransaction(w, f, txid) ==
    LET known == {x \in WalletTxs(w) : TxHash(x.tx) = txid}
    IN IF f = "GetTransaction" \/ known = {}
       THEN [err |-> ErrorOf("GetTransaction"), BlockHash |-> 0]
       ELSE [err |-> NIL, BlockHash |-> (CHOOSE x \in known : TRUE).BlockHash]

\* AttestClient.createAttestation: one output paying sum(inputs) - fee
createAttestation(paytoaddr, unspentList, fee) ==
    [NoTx EXCEPT !.prev = unspentList[1].TxID, !.topup = (Len(unspentList) > 1),
                 !.payto = paytoaddr, !.fee = fee]

\* AttestClient.signAttestation: fill the scriptSigs from the signers' sigs and
\* the redeem script rebuilt from the previous commitment hash
signAttestation(tx, sigs, hash) ==
    [tx EXCEPT !.signed = TRUE, !.script = hash, !.sigs = sigs]

\* whether the network accepts the transaction: it spends the staychain tip
\* with the tip's script and valid signatures and, if it replaces a mempool
\* transaction, pays a higher fee
Accepts(w, tx) ==
    /\ chain # <<>>
    /\ tx.prev = TxHash(chain[Len(chain)].tx)
    /\ tx.signed /\ tx.sigs
    /\ GetNextAttestationAddr(GetNextAttestationKey(tx.script), tx.script)
           = chain[Len(chain)].tx.payto
    /\ tx.topup => topupUnspent
    /\ \A t \in w.mempool : tx.fee > t.fee

\* AttestClient.sendAttestation: sendrawtransaction
sendAttestation(w, f, tx) ==
    (CHOOSE r \in {Alive(v, LET ok == f # "sendAttestation" /\ Accepts(v, tx)
            w1 == Call(v, Ev("sendAttestation", TxHash(tx),
                             ZeroRoot, FALSE, IF ok THEN NIL ELSE ErrorOf("sendAttestation")))
        IN IF ok
           THEN [w1 EXCEPT !.mempool = {tx},
                           !.hist.broadcast = @ \cup {[txid |-> TxHash(tx),
                                              root |-> CommitmentHash(v.attestation),
                                              tx |-> tx]}]
           ELSE w1) : v \in {w}} : TRUE)

\* AttestClient.bumpAttestationFees: bump the fee policy, put the new fee on
\* the transaction and clear its scriptSigs
bumpAttestationFees(w, f) ==
    CHOOSE r \in {Alive(v,
        LET w1 == Call(v, Ev("bumpAttestationFees", TxHash(v.attestation.Tx), ZeroRoot,
                             FALSE, Fault(f, "bumpAttestationFees")))
        IN IF f = "bumpAttestationFees" THEN w1
           ELSE [w1 EXCEPT !.fee = BumpFee(@),
                           !.attestation.Tx = [Unsigned(@) EXCEPT !.fee = BumpFee(v.fee)]]) :
        v \in {w}} : TRUE

\* AttestSigner.SendNewHash
SendNewHash(w, hash) ==
    (CHOOSE r \in {Alive(v, [Call(v, Ev("SendNewHash", ZeroTxid, hash, FALSE, NIL))
                             EXCEPT !.hist.newHash = @ \cup {hash}]) : v \in {w}} : TRUE)

\* AttestSigner.SendNewTx
SendNewTx(w, tx) ==
    (CHOOSE r \in {Alive(v, [Call(v, Ev("SendNewTx", TxHash(tx), ZeroRoot, FALSE, NIL))
                             EXCEPT !.hist.newTx = @ \cup {tx}]) : v \in {w}} : TRUE)

\* AttestSigner.SendConfirmedHash
SendConfirmedHash(w, hash) ==
    (CHOOSE r \in {Alive(v, [Call(v, Ev("SendConfirmedHash", ZeroTxid, hash, FALSE, NIL))
                             EXCEPT !.hist.confirmedHash = @ \cup {hash}]) : v \in {w}} : TRUE)

\* AttestSigner.GetSigs: the signatures produced for the transaction most
\* recently published, or none when the signers did not answer (sigs)
GetSigs(w, sigs) ==
    (CHOOSE r \in {Alive(v, [Call(v, Ev("GetSigs", TxHash(v.attestation.Tx), ZeroRoot, sigs, NIL))
                             EXCEPT !.hist.sigs = @ \cup {v.attestation.Tx}]) : v \in {w}} : TRUE)

\* Server.UpdateLatestAttestation: upsert the attestation with its confirmed
\* flag; when confirmed also persist its Merkle commitments
UpdateLatestAttestation(w, f, att) ==
    CHOOSE r \in {Alive(v,
        LET w1 == Call(v, Ev("UpdateLatestAttestation", a.Txid, CommitmentHash(a),
                             a.Confirmed, Fault(f, "UpdateLatestAttestation")))
        IN IF f = "UpdateLatestAttestation" THEN w1
           ELSE [w1 EXCEPT
                   !.attCol = saveAttestation(@, a, a.Confirmed),
                   !.mcCol = IF a.Confirmed
                             THEN saveMerkleCommitments(@, CommitmentHash(a), a.commitment)
                             ELSE @,
                   !.hist.persisted = @ \cup {[txid |-> a.Txid, root |-> CommitmentHash(a),
                                               confirmed |-> a.Confirmed, tx |-> a.Tx,
                                               blockHash |-> a.BlockHash]}]) :
        v \in {w}, a \in {att}} : TRUE

\* Server.GetAttestationCommitment
GetAttestationCommitment(w, f, txid) ==
    IF f = "GetAttestationCommitment"
    THEN [err |-> ErrorOf("GetAttestationCommitment"), commitment |-> <<>>]
    ELSE getAttestationCommitment(w.attCol, latestCommitmentCol, txid)

\* Server.GetClientCommitment
GetClientCommitment(f) ==
    IF f = "GetClientCommitment"
    THEN [err |-> ErrorOf("GetClientCommitment"), commitment |-> <<>>]
    ELSE getLatestCommitment(latestCommitmentCol)

\* Server.GetLatestAttestationCommitmentHash
GetLatestAttestationCommitmentHash(w, f) ==
    IF f = "GetLatestAttestationCommitmentHash"
    THEN [err |-> ErrorOf("GetLatestAttestationCommitmentHash"), hash |-> ZeroRoot]
    ELSE getLatestAttestedCommitmentHash(w.attCol)

\* ------------------------------------------------------------------------
\* State handlers (attestservice.go)
\* ------------------------------------------------------------------------
\* setFailure, on a non-nil error: store the error and move to ASTATE_ERROR
setFailure(w, err) ==
    IF err # NIL
    THEN (CHOOSE r \in {Alive(v, [v EXCEPT !.errorState = err, !.state = ASTATE_ERROR]) :
            v \in {w}} : TRUE)
    ELSE w

\* an error that the handler discards (result, _ := call) leaves a nil result
\* whose use panics: the process dies inside the handler, with what the
\* handler had assigned until then
Panic(w) == (CHOOSE r \in {Alive(v, [v EXCEPT !.panic = TRUE]) : v \in {w}} : TRUE)

\* mutant: the Error handler resets the fee policy
doStateError_ResetsFee(w) ==
    [w EXCEPT !.state = ASTATE_INIT, !.fee = ResetFee(config.regtest)]

\* ASTATE_ERROR
doStateError(w) == [w EXCEPT !.state = ASTATE_INIT]

\* part of ASTATE_INIT: an unconfirmed transaction is in the mempool.  With
\* f = "drop:GetRawTransaction" the mempool drops the transaction that
\* getUnconfirmedTx found while the handler waits on the Store, before
\* GetRawTransaction asks for it.
stateInitUnconfirmed(w, f, unconfirmedTxid) ==
    LET c == GetAttestationCommitment(w, f, unconfirmedTxid)
        wc == Call(w, Ev("GetAttestationCommitment", unconfirmedTxid, ZeroRoot, FALSE, c.err))
        w1 == IF f = "drop:GetRawTransaction" THEN [wc EXCEPT !.mempool = {}] ELSE wc
        raw == GetRawTransaction(w1, f, unconfirmedTxid)
        w2 == Call(w1, Ev("GetRawTransaction", unconfirmedTxid, ZeroRoot, FALSE, raw.err))
    IN IF c.err # NIL THEN setFailure(w1, c.err)
       ELSE IF raw.err # NIL
       THEN Panic([w2 EXCEPT !.attestation = NewAttestation(unconfirmedTxid, c.commitment)])
       ELSE [w2 EXCEPT
               !.attestation = [NewAttestation(unconfirmedTxid, c.commitment)
                                   EXCEPT !.Tx = raw.tx],
               !.state = ASTATE_AWAIT_CONFIRMATION,
               !.since = 0]

\* mutant: the confirmed-hash is sent although the persist failed
stateInitUnspent_SendOnFailure(w, f, unspent) ==
    LET unspentTxid == unspent.TxID
        c == GetAttestationCommitment(w, f, unspentTxid)
        w1 == Call(w, Ev("GetAttestationCommitment", unspentTxid, ZeroRoot, FALSE, c.err))
        raw == GetRawTransaction(w, f, unspentTxid)
        w2 == Call(w1, Ev("GetRawTransaction", unspentTxid, ZeroRoot, FALSE, raw.err))
        walletTx == GetTransaction(w, f, unspentTxid)
        w3 == Call(w2, Ev("GetTransaction", unspentTxid, ZeroRoot, FALSE, walletTx.err))
        a0 == [NewAttestation(unspentTxid, c.commitment) EXCEPT !.Confirmed = TRUE]
        a == UpdateInfo([a0 EXCEPT !.Tx = raw.tx], walletTx)
        w4 == UpdateLatestAttestation([w3 EXCEPT !.attestation = a], f, a)
        Confirm(v) == (CHOOSE r \in {Alive(wk, [wk EXCEPT !.state = ASTATE_NEXT_COMMITMENT]) :
                wk \in {SendConfirmedHash(v, CommitmentHash(v.attestation))}} : TRUE)
    IN IF c.err # NIL THEN setFailure(w1, c.err)
       ELSE IF GetCommitmentHash(c.commitment) # ZeroRoot
       THEN IF raw.err # NIL THEN Panic([w3 EXCEPT !.attestation = a0])
            ELSE IF walletTx.err # NIL
            THEN Panic([w3 EXCEPT !.attestation = [a0 EXCEPT !.Tx = raw.tx]])
            ELSE IF LastErr(w4) # NIL
            THEN setFailure(SendConfirmedHash(w4, CommitmentHash(a)), LastErr(w4))
            ELSE Confirm(w4)
       ELSE Confirm([w1 EXCEPT !.attestation = NewAttestationDefault])

\* part of ASTATE_INIT: an unspent is in the wallet
stateInitUnspent(w, f, unspent) ==
    LET unspentTxid == unspent.TxID
        c == GetAttestationCommitment(w, f, unspentTxid)
        w1 == Call(w, Ev("GetAttestationCommitment", unspentTxid, ZeroRoot, FALSE, c.err))
        raw == GetRawTransaction(w, f, unspentTxid)
        w2 == Call(w1, Ev("GetRawTransaction", unspentTxid, ZeroRoot, FALSE, raw.err))
        walletTx == GetTransaction(w, f, unspentTxid)
        w3 == Call(w2, Ev("GetTransaction", unspentTxid, ZeroRoot, FALSE, walletTx.err))
        a0 == [NewAttestation(unspentTxid, c.commitment) EXCEPT !.Confirmed = TRUE]
        a == UpdateInfo([a0 EXCEPT !.Tx = raw.tx], walletTx)
        w4 == UpdateLatestAttestation([w3 EXCEPT !.attestation = a], f, a)
        Confirm(v) == (CHOOSE r \in {Alive(wk, [wk EXCEPT !.state = ASTATE_NEXT_COMMITMENT]) :
                wk \in {SendConfirmedHash(v, CommitmentHash(v.attestation))}} : TRUE)
    IN IF c.err # NIL THEN setFailure(w1, c.err)
       ELSE IF GetCommitmentHash(c.commitment) # ZeroRoot
       THEN IF raw.err # NIL THEN Panic([w3 EXCEPT !.attestation = a0])
            ELSE IF walletTx.err # NIL
            THEN Panic([w3 EXCEPT !.attestation = [a0 EXCEPT !.Tx = raw.tx]])
            ELSE IF LastErr(w4) # NIL THEN setFailure(w4, LastErr(w4))
            ELSE Confirm(w4)
       ELSE Confirm([w1 EXCEPT !.attestation = NewAttestationDefault])

\* mutant: the wallet failure is reported as an error
stateInitWalletFailure_SetsError(w) == setFailure(w, ERROR_UNSPENT_NOT_FOUND)

\* part of ASTATE_INIT: neither unconfirmed nor unspent found
stateInitWalletFailure(w) == [w EXCEPT !.state = ASTATE_INIT]

\* ASTATE_INIT
doStateInit(w, f) ==
    LET u == getUnconfirmedTx(w)
        w1 == Call(w, Ev("getUnconfirmedTx", u.txid, ZeroRoot, u.found,
                         Fault(f, "getUnconfirmedTx")))
        l == findLastUnspent(w, f)
        w2 == Call(w1, Ev("findLastUnspent", l.unspent.TxID, ZeroRoot, l.found,
                          Fault(f, "findLastUnspent")))
    IN IF LastErr(w1) # NIL THEN setFailure(w1, LastErr(w1))
       ELSE IF u.found THEN stateInitUnconfirmed(w1, f, u.txid)
       ELSE IF LastErr(w2) # NIL THEN setFailure(w2, LastErr(w2))
       ELSE IF l.found THEN stateInitUnspent(w2, f, l.unspent)
       ELSE stateInitWalletFailure(w2)

\* mutant: the caught-up branch leaves the delay at the value doAttestation set
doStateNextCommitment_NoDelay(w, f) ==
    LET latest == GetClientCommitment(f)
        w1 == Call(w, Ev("GetClientCommitment", ZeroTxid,
                         GetCommitmentHash(latest.commitment), FALSE, latest.err))
        latestCommitmentHash == GetCommitmentHash(latest.commitment)
    IN IF latest.err # NIL THEN setFailure(w1, latest.err)
       ELSE IF latestCommitmentHash = CommitmentHash(w1.attestation)
       THEN w1
       ELSE (CHOOSE r \in {Alive(wk, [wk EXCEPT
               !.attestation = [NewAttestationDefault EXCEPT !.commitment = latest.commitment],
               !.state = ASTATE_NEW_ATTESTATION]) :
                       wk \in {SendNewHash(w1, latestCommitmentHash)}} : TRUE)

\* mutant: the new commitment hash is not published to the signers
doStateNextCommitment_NoNewHash(w, f) ==
    LET latest == GetClientCommitment(f)
        w1 == Call(w, Ev("GetClientCommitment", ZeroTxid,
                         GetCommitmentHash(latest.commitment), FALSE, latest.err))
    IN IF latest.err # NIL THEN setFailure(w1, latest.err)
       ELSE IF GetCommitmentHash(latest.commitment) = CommitmentHash(w1.attestation)
       THEN [w1 EXCEPT !.attestDelay = atimeNewAttestation]
       ELSE [w1 EXCEPT
               !.attestation = [NewAttestationDefault EXCEPT !.commitment = latest.commitment],
               !.state = ASTATE_NEW_ATTESTATION]

\* mutant: the new commitment is set on the attestation in place
doStateNextCommitment_KeepAttestation(w, f) ==
    LET latest == GetClientCommitment(f)
        w1 == Call(w, Ev("GetClientCommitment", ZeroTxid,
                         GetCommitmentHash(latest.commitment), FALSE, latest.err))
        latestCommitmentHash == GetCommitmentHash(latest.commitment)
    IN IF latest.err # NIL THEN setFailure(w1, latest.err)
       ELSE IF latestCommitmentHash = CommitmentHash(w1.attestation)
       THEN [w1 EXCEPT !.attestDelay = atimeNewAttestation]
       ELSE (CHOOSE r \in {Alive(wk, [wk EXCEPT
               !.attestation.commitment = latest.commitment,
               !.state = ASTATE_NEW_ATTESTATION]) :
                       wk \in {SendNewHash(w1, latestCommitmentHash)}} : TRUE)

\* ASTATE_NEXT_COMMITMENT
doStateNextCommitment(w, f) ==
    LET latest == GetClientCommitment(f)
        w1 == Call(w, Ev("GetClientCommitment", ZeroTxid,
                         GetCommitmentHash(latest.commitment), FALSE, latest.err))
        latestCommitmentHash == GetCommitmentHash(latest.commitment)
    IN IF latest.err # NIL THEN setFailure(w1, latest.err)
       ELSE IF latestCommitmentHash = CommitmentHash(w1.attestation)
       THEN [w1 EXCEPT !.attestDelay = atimeNewAttestation]
       ELSE (CHOOSE r \in {Alive(wk, [wk EXCEPT
               !.attestation = [NewAttestationDefault EXCEPT !.commitment = latest.commitment],
               !.state = ASTATE_NEW_ATTESTATION]) :
                       wk \in {SendNewHash(w1, latestCommitmentHash)}} : TRUE)

\* mutant: a missing last unspent is not treated as a failure
doStateNewAttestation_IgnoreNotFound(w, f) ==
    LET hash == CommitmentHash(w.attestation)
        key == GetNextAttestationKey(hash)
        w1 == Call(w, Ev("GetNextAttestationKey", ZeroTxid, hash, FALSE,
                         Fault(f, "GetNextAttestationKey")))
        paytoaddr == GetNextAttestationAddr(key, hash)
        w2 == Call(w1, Ev("GetNextAttestationAddr", ZeroTxid, hash, FALSE,
                          Fault(f, "GetNextAttestationAddr")))
        w3 == Call(w2, Ev("ImportAttestationAddr", ZeroTxid, hash, FALSE,
                          Fault(f, "ImportAttestationAddr")))
        l == findLastUnspent(w, f)
        w4 == Call(w3, Ev("findLastUnspent", l.unspent.TxID, ZeroRoot, l.found,
                          Fault(f, "findLastUnspent")))
        t == findTopupUnspent(w)
        w5 == Call(w4, Ev("findTopupUnspent", t.unspent.TxID, ZeroRoot, t.found,
                          Fault(f, "findTopupUnspent")))
        unspentList == IF t.found THEN <<l.unspent, t.unspent>> ELSE <<l.unspent>>
        newTx == createAttestation(paytoaddr, unspentList, w.fee)
        w6 == Call(w5, Ev("createAttestation", TxHash(newTx), hash, t.found,
                          Fault(f, "createAttestation")))
    IN IF LastErr(w1) # NIL THEN setFailure(w1, LastErr(w1))
       ELSE IF LastErr(w2) # NIL THEN Panic(w2)
       ELSE IF LastErr(w3) # NIL THEN setFailure(w3, LastErr(w3))
       ELSE IF LastErr(w4) # NIL THEN setFailure(w4, LastErr(w4))
       ELSE IF LastErr(w5) # NIL THEN setFailure(w5, LastErr(w5))
       ELSE IF LastErr(w6) # NIL THEN setFailure(w6, LastErr(w6))
       ELSE (CHOOSE r \in {Alive(wk, [wk EXCEPT
               !.state = ASTATE_SIGN_ATTESTATION,
               !.attestDelay = ATIME_SIGS]) :
                       wk \in {SendNewTx([w6 EXCEPT !.attestation.Tx = newTx], newTx)}} : TRUE)

\* mutant: the topup unspent is put first in the input list
doStateNewAttestation_TopupFirst(w, f) ==
    LET hash == CommitmentHash(w.attestation)
        key == GetNextAttestationKey(hash)
        w1 == Call(w, Ev("GetNextAttestationKey", ZeroTxid, hash, FALSE,
                         Fault(f, "GetNextAttestationKey")))
        paytoaddr == GetNextAttestationAddr(key, hash)
        w2 == Call(w1, Ev("GetNextAttestationAddr", ZeroTxid, hash, FALSE,
                          Fault(f, "GetNextAttestationAddr")))
        w3 == Call(w2, Ev("ImportAttestationAddr", ZeroTxid, hash, FALSE,
                          Fault(f, "ImportAttestationAddr")))
        l == findLastUnspent(w, f)
        w4 == Call(w3, Ev("findLastUnspent", l.unspent.TxID, ZeroRoot, l.found,
                          Fault(f, "findLastUnspent")))
        t == findTopupUnspent(w)
        w5 == Call(w4, Ev("findTopupUnspent", t.unspent.TxID, ZeroRoot, t.found,
                          Fault(f, "findTopupUnspent")))
        unspentList == IF t.found THEN <<t.unspent, l.unspent>> ELSE <<l.unspent>>
        newTx == createAttestation(paytoaddr, unspentList, w.fee)
        w6 == Call(w5, Ev("createAttestation", TxHash(newTx), hash, t.found,
                          Fault(f, "createAttestation")))
    IN IF LastErr(w1) # NIL THEN setFailure(w1, LastErr(w1))
       ELSE IF LastErr(w2) # NIL THEN Panic(w2)
       ELSE IF LastErr(w3) # NIL THEN setFailure(w3, LastErr(w3))
       ELSE IF LastErr(w4) # NIL THEN setFailure(w4, LastErr(w4))
       ELSE IF ~l.found THEN setFailure(w4, ERROR_UNSPENT_NOT_FOUND)
       ELSE IF LastErr(w5) # NIL THEN setFailure(w5, LastErr(w5))
       ELSE IF LastErr(w6) # NIL THEN setFailure(w6, LastErr(w6))
       ELSE (CHOOSE r \in {Alive(wk, [wk EXCEPT
               !.state = ASTATE_SIGN_ATTESTATION,
               !.attestDelay = ATIME_SIGS]) :
                       wk \in {SendNewTx([w6 EXCEPT !.attestation.Tx = newTx], newTx)}} : TRUE)

\* ASTATE_NEW_ATTESTATION
doStateNewAttestation(w, f) ==
    LET hash == CommitmentHash(w.attestation)
        key == GetNextAttestationKey(hash)
        w1 == Call(w, Ev("GetNextAttestationKey", ZeroTxid, hash, FALSE,
                         Fault(f, "GetNextAttestationKey")))
        paytoaddr == GetNextAttestationAddr(key, hash)
        w2 == Call(w1, Ev("GetNextAttestationAddr", ZeroTxid, hash, FALSE,
                          Fault(f, "GetNextAttestationAddr")))
        w3 == Call(w2, Ev("ImportAttestationAddr", ZeroTxid, hash, FALSE,
                          Fault(f, "ImportAttestationAddr")))
        l == findLastUnspent(w, f)
        w4 == Call(w3, Ev("findLastUnspent", l.unspent.TxID, ZeroRoot, l.found,
                          Fault(f, "findLastUnspent")))
        t == findTopupUnspent(w)
        w5 == Call(w4, Ev("findTopupUnspent", t.unspent.TxID, ZeroRoot, t.found,
                          Fault(f, "findTopupUnspent")))
        unspentList == IF t.found THEN <<l.unspent, t.unspent>> ELSE <<l.unspent>>
        newTx == createAttestation(paytoaddr, unspentList, w.fee)
        w6 == Call(w5, Ev("createAttestation", TxHash(newTx), hash, t.found,
                          Fault(f, "createAttestation")))
    IN IF LastErr(w1) # NIL THEN setFailure(w1, LastErr(w1))
       ELSE IF LastErr(w2) # NIL THEN Panic(w2)
       ELSE IF LastErr(w3) # NIL THEN setFailure(w3, LastErr(w3))
       ELSE IF LastErr(w4) # NIL THEN setFailure(w4, LastErr(w4))
       ELSE IF ~l.found THEN setFailure(w4, ERROR_UNSPENT_NOT_FOUND)
       ELSE IF LastErr(w5) # NIL THEN setFailure(w5, LastErr(w5))
       ELSE IF LastErr(w6) # NIL THEN setFailure(w6, LastErr(w6))
       ELSE (CHOOSE r \in {Alive(wk, [wk EXCEPT
               !.state = ASTATE_SIGN_ATTESTATION,
               !.attestDelay = ATIME_SIGS]) :
                       wk \in {SendNewTx([w6 EXCEPT !.attestation.Tx = newTx], newTx)}} : TRUE)

\* mutant: the signed transaction goes straight to the broadcast state
doStateSignAttestation_SkipStore(w, f, sigs) ==
    LET lastHash == GetLatestAttestationCommitmentHash(w, f)
        signedTx == signAttestation(w.attestation.Tx, sigs, lastHash.hash)
    IN [GetSigs(w, sigs) EXCEPT !.attestation.Tx = signedTx,
                                !.attestation.Txid = TxHash(signedTx),
                                !.state = ASTATE_SEND_ATTESTATION]

\* mutant: the txid is not recomputed from the signed transaction
doStateSignAttestation_StaleTxid(w, f, sigs) ==
    LET w1 == GetSigs(w, sigs)
        lastHash == GetLatestAttestationCommitmentHash(w, f)
        w2 == Call(w1, Ev("GetLatestAttestationCommitmentHash", ZeroTxid, lastHash.hash,
                          FALSE, lastHash.err))
        signedTx == signAttestation(w.attestation.Tx, sigs, lastHash.hash)
        w3 == Call(w2, Ev("signAttestation", TxHash(w.attestation.Tx), lastHash.hash, sigs,
                          Fault(f, "signAttestation")))
    IN IF lastHash.err # NIL THEN setFailure(w2, lastHash.err)
       ELSE IF LastErr(w3) # NIL THEN setFailure(w3, LastErr(w3))
       ELSE [w3 EXCEPT !.attestation.Tx = signedTx,
                       !.state = ASTATE_PRE_SEND_STORE]

\* ASTATE_SIGN_ATTESTATION
doStateSignAttestation(w, f, sigs) ==
    LET w1 == GetSigs(w, sigs)
        lastHash == GetLatestAttestationCommitmentHash(w, f)
        w2 == Call(w1, Ev("GetLatestAttestationCommitmentHash", ZeroTxid, lastHash.hash,
                          FALSE, lastHash.err))
        signedTx == signAttestation(w.attestation.Tx, sigs, lastHash.hash)
        w3 == Call(w2, Ev("signAttestation", TxHash(w.attestation.Tx), lastHash.hash, sigs,
                          Fault(f, "signAttestation")))
    IN IF lastHash.err # NIL THEN setFailure(w2, lastHash.err)
       ELSE IF LastErr(w3) # NIL THEN setFailure(w3, LastErr(w3))
       ELSE [w3 EXCEPT !.attestation.Tx = signedTx,
                       !.attestation.Txid = TxHash(signedTx),
                       !.state = ASTATE_PRE_SEND_STORE]

\* mutant: the handler moves on to the broadcast without persisting
doStatePreSendStore_NoPersist(w, f) ==
    [w EXCEPT !.state = ASTATE_SEND_ATTESTATION]

\* ASTATE_PRE_SEND_STORE
doStatePreSendStore(w, f) ==
    LET w1 == UpdateLatestAttestation(w, f, w.attestation)
    IN IF LastErr(w1) # NIL THEN setFailure(w1, LastErr(w1))
       ELSE (CHOOSE r \in {Alive(wk, [wk EXCEPT !.state = ASTATE_SEND_ATTESTATION]) :
               wk \in {w1}} : TRUE)

\* mutant: the confirmation waiting time is set before the send is tried
doStateSendAttestation_DelayFirst(w, f) ==
    LET w1 == sendAttestation([w EXCEPT !.attestDelay = ATIME_CONFIRMATION], f,
                              w.attestation.Tx)
    IN IF LastErr(w1) # NIL THEN setFailure(w1, LastErr(w1))
       ELSE (CHOOSE r \in {Alive(wk, [wk EXCEPT !.attestation.Txid = TxHash(w.attestation.Tx),
                       !.state = ASTATE_AWAIT_CONFIRMATION,
                       !.since = 0]) : wk \in {w1}} : TRUE)

\* ASTATE_SEND_ATTESTATION
doStateSendAttestation(w, f) ==
    LET w1 == sendAttestation(w, f, w.attestation.Tx)
    IN IF LastErr(w1) # NIL THEN setFailure(w1, LastErr(w1))
       ELSE (CHOOSE r \in {Alive(wk, [wk EXCEPT !.attestation.Txid = TxHash(w.attestation.Tx),
                       !.state = ASTATE_AWAIT_CONFIRMATION,
                       !.attestDelay = ATIME_CONFIRMATION,
                       !.since = 0]) : wk \in {w1}} : TRUE)

\* mutant: the wallet is asked for the confirmation before the time since
\* confirmTime is looked at
doStateAwaitConfirmation_QueryFirst(w, f) ==
    LET newTx == GetTransaction(w, f, w.attestation.Txid)
        w1 == Call(w, Ev("GetTransaction", w.attestation.Txid, ZeroRoot,
                         newTx.BlockHash # 0, newTx.err))
        a == UpdateInfo([w.attestation EXCEPT !.Confirmed = TRUE], newTx)
        w2 == UpdateLatestAttestation([w1 EXCEPT !.attestation = a], f, a)
        w3 == (CHOOSE r \in {Alive(wk, Call([wk EXCEPT !.fee = ResetFee(config.regtest)],
                             Ev("ResetFee", ZeroTxid, ZeroRoot, config.regtest, NIL))) :
                                     wk \in {w2}} : TRUE)
    IN IF newTx.err # NIL THEN setFailure(w1, newTx.err)
       ELSE IF newTx.BlockHash # 0
       THEN IF LastErr(w2) # NIL THEN setFailure(w2, LastErr(w2))
            ELSE (CHOOSE r \in {Alive(wk, [wk EXCEPT
                    !.state = ASTATE_NEXT_COMMITMENT,
                    !.attestDelay = atimeNewAttestation - w.since]) :
                            wk \in {SendConfirmedHash(w3, CommitmentHash(a))}} : TRUE)
       ELSE IF w.since > atimeHandleUnconfirmed
       THEN [w1 EXCEPT !.state = ASTATE_HANDLE_UNCONFIRMED]
       ELSE [w1 EXCEPT !.attestDelay = ATIME_CONFIRMATION]

\* mutant: a confirmation leaves the fee policy as it is and waits the whole
\* atimeNewAttestation
doStateAwaitConfirmation_NoReset(w, f) ==
    LET newTx == GetTransaction(w, f, w.attestation.Txid)
        w1 == Call(w, Ev("GetTransaction", w.attestation.Txid, ZeroRoot,
                         newTx.BlockHash # 0, newTx.err))
        a == UpdateInfo([w.attestation EXCEPT !.Confirmed = TRUE], newTx)
        w2 == UpdateLatestAttestation([w1 EXCEPT !.attestation = a], f, a)
    IN IF w.since > atimeHandleUnconfirmed
       THEN [w EXCEPT !.state = ASTATE_HANDLE_UNCONFIRMED]
       ELSE IF newTx.err # NIL THEN setFailure(w1, newTx.err)
       ELSE IF newTx.BlockHash # 0
       THEN IF LastErr(w2) # NIL THEN setFailure(w2, LastErr(w2))
            ELSE (CHOOSE r \in {Alive(wk, [wk EXCEPT
                    !.state = ASTATE_NEXT_COMMITMENT,
                    !.attestDelay = atimeNewAttestation]) :
                            wk \in {SendConfirmedHash(w2, CommitmentHash(a))}} : TRUE)
       ELSE [w1 EXCEPT !.attestDelay = ATIME_CONFIRMATION]

\* mutant: the transaction counts as confirmed as soon as the wallet knows it
doStateAwaitConfirmation_ConfirmUnmined(w, f) ==
    LET newTx == GetTransaction(w, f, w.attestation.Txid)
        w1 == Call(w, Ev("GetTransaction", w.attestation.Txid, ZeroRoot,
                         newTx.BlockHash # 0, newTx.err))
        a == UpdateInfo([w.attestation EXCEPT !.Confirmed = TRUE], newTx)
        w2 == UpdateLatestAttestation([w1 EXCEPT !.attestation = a], f, a)
        w3 == (CHOOSE r \in {Alive(wk, Call([wk EXCEPT !.fee = ResetFee(config.regtest)],
                             Ev("ResetFee", ZeroTxid, ZeroRoot, config.regtest, NIL))) :
                                     wk \in {w2}} : TRUE)
    IN IF w.since > atimeHandleUnconfirmed
       THEN [w EXCEPT !.state = ASTATE_HANDLE_UNCONFIRMED]
       ELSE IF newTx.err # NIL THEN setFailure(w1, newTx.err)
       ELSE IF LastErr(w2) # NIL THEN setFailure(w2, LastErr(w2))
       ELSE (CHOOSE r \in {Alive(wk, [wk EXCEPT
               !.state = ASTATE_NEXT_COMMITMENT,
               !.attestDelay = atimeNewAttestation - w.since]) :
                       wk \in {SendConfirmedHash(w3, CommitmentHash(a))}} : TRUE)

\* ASTATE_AWAIT_CONFIRMATION
doStateAwaitConfirmation(w, f) ==
    LET newTx == GetTransaction(w, f, w.attestation.Txid)
        w1 == Call(w, Ev("GetTransaction", w.attestation.Txid, ZeroRoot,
                         newTx.BlockHash # 0, newTx.err))
        a == UpdateInfo([w.attestation EXCEPT !.Confirmed = TRUE], newTx)
        w2 == UpdateLatestAttestation([w1 EXCEPT !.attestation = a], f, a)
        w3 == (CHOOSE r \in {Alive(wk, Call([wk EXCEPT !.fee = ResetFee(config.regtest)],
                             Ev("ResetFee", ZeroTxid, ZeroRoot, config.regtest, NIL))) :
                                     wk \in {w2}} : TRUE)
    IN IF w.since > atimeHandleUnconfirmed
       THEN [w EXCEPT !.state = ASTATE_HANDLE_UNCONFIRMED]
       ELSE IF newTx.err # NIL THEN setFailure(w1, newTx.err)
       ELSE IF newTx.BlockHash # 0
       THEN IF LastErr(w2) # NIL THEN setFailure(w2, LastErr(w2))
            ELSE (CHOOSE r \in {Alive(wk, [wk EXCEPT
                    !.state = ASTATE_NEXT_COMMITMENT,
                    !.attestDelay = atimeNewAttestation - w.since]) :
                            wk \in {SendConfirmedHash(w3, CommitmentHash(a))}} : TRUE)
       ELSE [w1 EXCEPT !.attestDelay = ATIME_CONFIRMATION]

\* mutant: the bumped transaction is not published to the signers again
doStateHandleUnconfirmed_NoPublish(w, f) ==
    LET w1 == bumpAttestationFees(w, f)
    IN IF LastErr(w1) # NIL THEN setFailure(w1, LastErr(w1))
       ELSE [w1 EXCEPT !.state = ASTATE_SIGN_ATTESTATION,
                       !.attestDelay = ATIME_SIGS]

\* ASTATE_HANDLE_UNCONFIRMED
doStateHandleUnconfirmed(w, f) ==
    LET w1 == bumpAttestationFees(w, f)
    IN IF LastErr(w1) # NIL THEN setFailure(w1, LastErr(w1))
       ELSE (CHOOSE r \in {Alive(wk, [wk EXCEPT
               !.state = ASTATE_SIGN_ATTESTATION,
               !.attestDelay = ATIME_SIGS]) : wk \in {SendNewTx(w1, w1.attestation.Tx)}} : TRUE)

\* mutant: the delay is not reset at the start of the tick
doAttestation_NoReset(w0, f, sigs) ==
    LET w == w0
    IN CASE w.state = ASTATE_ERROR -> doStateError(w)
         [] w.state = ASTATE_INIT -> doStateInit(w, f)
         [] w.state = ASTATE_NEXT_COMMITMENT -> doStateNextCommitment(w, f)
         [] w.state = ASTATE_NEW_ATTESTATION -> doStateNewAttestation(w, f)
         [] w.state = ASTATE_SIGN_ATTESTATION -> doStateSignAttestation(w, f, sigs)
         [] w.state = ASTATE_PRE_SEND_STORE -> doStatePreSendStore(w, f)
         [] w.state = ASTATE_SEND_ATTESTATION -> doStateSendAttestation(w, f)
         [] w.state = ASTATE_AWAIT_CONFIRMATION -> doStateAwaitConfirmation(w, f)
         [] w.state = ASTATE_HANDLE_UNCONFIRMED -> doStateHandleUnconfirmed(w, f)

\* doAttestation: reset the delay and run the handler of the current state
doAttestation(w0, f, sigs) ==
    LET w == [w0 EXCEPT !.attestDelay = ATIME_FIXED]
    IN CASE w.state = ASTATE_ERROR -> doStateError(w)
         [] w.state = ASTATE_INIT -> doStateInit(w, f)
         [] w.state = ASTATE_NEXT_COMMITMENT -> doStateNextCommitment(w, f)
         [] w.state = ASTATE_NEW_ATTESTATION -> doStateNewAttestation(w, f)
         [] w.state = ASTATE_SIGN_ATTESTATION -> doStateSignAttestation(w, f, sigs)
         [] w.state = ASTATE_PRE_SEND_STORE -> doStatePreSendStore(w, f)
         [] w.state = ASTATE_SEND_ATTESTATION -> doStateSendAttestation(w, f)
         [] w.state = ASTATE_AWAIT_CONFIRMATION -> doStateAwaitConfirmation(w, f)
         [] w.state = ASTATE_HANDLE_UNCONFIRMED -> doStateHandleUnconfirmed(w, f)

\* ------------------------------------------------------------------------
\* Configuration strings
\* ------------------------------------------------------------------------
\* a string is modelled by its length and by whether all its characters are
\* hex digits
MaxHashStringSize == 64

ValidInitTx == [len |-> MaxHashStringSize, hex |-> TRUE]

\* chainhash.NewHashFromStr: at most 64 characters, all hex digits (a shorter
\* string is padded); the error, or nil
NewHashFromStr(s) ==
    IF s.len > MaxHashStringSize THEN "max hash string length is 64 bytes"
    ELSE IF ~s.hex THEN "encoding/hex: invalid byte"
    ELSE NIL

\* ------------------------------------------------------------------------
\* Construction and the Run loop
\* ------------------------------------------------------------------------
\* FeesConfig with every value left to the library default
DefaultFeesConfig == [minFee |-> -1, maxFee |-> -1, feeIncrement |-> -1]

\* the configurations explored: a mainnet set-up with both schedules
\* configured, and a regtest set-up whose new-attestation key is invalid
Configs ==
    { [regtest |-> FALSE, newAttestationMinutes |-> 10, handleUnconfirmedMinutes |-> 15,
       initTx |-> ValidInitTx, fees |-> DefaultFeesConfig],
      [regtest |-> TRUE,  newAttestationMinutes |-> 0,  handleUnconfirmedMinutes |-> 1,
       initTx |-> ValidInitTx, fees |-> DefaultFeesConfig] }

\* mutant: a timing argument of 0 minutes is taken as given
AtimeFromConfig_ZeroAllowed(minutes, default) ==
    IF minutes >= 0 THEN minutes * 60 ELSE default

\* NewAttestService: a timing argument > 0 minutes is used, else the default
AtimeFromConfig(minutes, default) ==
    IF minutes > 0 THEN minutes * 60 ELSE default

\* mutant: the init txid is not checked
NewAttestService_NoCheck(cfg) ==
    [fatal |-> FALSE,
     atimeNewAttestation |->
         AtimeFromConfig(cfg.newAttestationMinutes, DEFAULT_ATIME_NEW_ATTESTATION),
     atimeHandleUnconfirmed |->
         AtimeFromConfig(cfg.handleUnconfirmedMinutes, DEFAULT_ATIME_HANDLE_UNCONFIRMED),
     log |-> (IF cfg.newAttestationMinutes > 0 THEN <<>>
              ELSE <<WARNING_INVALID_ATIME_NEW_ATTESTATION_ARG>>)
             \o (IF cfg.handleUnconfirmedMinutes > 0 THEN <<>>
                 ELSE <<WARNING_INVALID_ATIME_HANDLE_UNCONFIRMED_ARG>>)]

\* NewAttestService: log.Fatalf when the init txid does not parse; otherwise
\* the two timing schedules and the warnings logged for the arguments ignored
NewAttestService(cfg) ==
    [fatal |-> NewHashFromStr(cfg.initTx) # NIL,
     atimeNewAttestation |->
         AtimeFromConfig(cfg.newAttestationMinutes, DEFAULT_ATIME_NEW_ATTESTATION),
     atimeHandleUnconfirmed |->
         AtimeFromConfig(cfg.handleUnconfirmedMinutes, DEFAULT_ATIME_HANDLE_UNCONFIRMED),
     log |-> (IF cfg.newAttestationMinutes > 0 THEN <<>>
              ELSE <<WARNING_INVALID_ATIME_NEW_ATTESTATION_ARG>>)
             \o (IF cfg.handleUnconfirmedMinutes > 0 THEN <<>>
                 ELSE <<WARNING_INVALID_ATIME_HANDLE_UNCONFIRMED_ARG>>)]

\* confirmTime is read only by doStateAwaitConfirmation, which compares the
\* time since it with atimeHandleUnconfirmed: the time is kept up to one
\* second above that threshold, and in the other states (and for the zero
\* time.Time a new process starts with) as that value
SinceCap == atimeHandleUnconfirmed + 1

\* the client commitments every slot starts with, and their documents
GenesisCommitment == [i \in 1..MaxClients |-> 1]

LatestDocs(leaves) ==
    {[client_position |-> i - 1, commitment |-> leaves[i],
      merkle_root |-> MerkleRoot(leaves)] : i \in 1..Len(leaves)}

LatestLeaves == SortedByPosition(latestCommitmentCol)

\* the attestation of GenesisCommitment that an earlier run left as the tip
PriorTx ==
    [NoTx EXCEPT !.prev = InitTxid,
                 !.payto = GetNextAttestationAddr(
                               GetNextAttestationKey(MerkleRoot(GenesisCommitment)),
                               MerkleRoot(GenesisCommitment)),
                 !.fee = FeeMin, !.signed = TRUE, !.sigs = TRUE]

PriorAttestation ==
    [NewAttestation(TxHash(PriorTx), GenesisCommitment) EXCEPT !.Confirmed = TRUE]

NoHist ==
    [newHash |-> {}, newTx |-> {}, sigs |-> {}, persisted |-> {}, broadcast |-> {},
     confirmedHash |-> {}]

\* what the earlier run that produced PriorTx was observed to do
PriorHist ==
    [newHash |-> {MerkleRoot(GenesisCommitment)},
     newTx |-> {Unsigned(PriorTx)},
     sigs |-> {Unsigned(PriorTx)},
     persisted |-> {[txid |-> TxHash(PriorTx), root |-> MerkleRoot(GenesisCommitment),
                     confirmed |-> c, tx |-> PriorTx,
                     blockHash |-> IF c THEN 1 ELSE 0] : c \in BOOLEAN},
     broadcast |-> {[txid |-> TxHash(PriorTx), root |-> MerkleRoot(GenesisCommitment),
                     tx |-> PriorTx]},
     confirmedHash |-> {MerkleRoot(GenesisCommitment)}]

\* no tick has run yet in this process
NoTick ==
    [handler |-> ASTATE_ERROR, since |-> 0, fault |-> NIL, log |-> <<>>,
     attestation |-> NewAttestationDefault, fee |-> 0, delay |-> ATIME_STARTUP]

\* the wallet, the Store and what was observed so far when the process starts
InitWorld ==
    /\ \E start \in {"fresh", "tip", "empty"} :
          /\ chain = CASE start = "fresh" -> <<[tx |-> FundingTx, BlockHash |-> 1]>>
                       [] start = "tip" -> <<[tx |-> PriorTx, BlockHash |-> 1]>>
                       [] start = "empty" -> <<>>
          /\ attestationCol = IF start = "tip"
                              THEN saveAttestation(<<>>, PriorAttestation, TRUE)
                              ELSE <<>>
          /\ merkleCommitmentCol = IF start = "tip"
                                   THEN saveMerkleCommitments({},
                                            MerkleRoot(GenesisCommitment), GenesisCommitment)
                                   ELSE {}
          /\ hist = IF start = "tip" THEN PriorHist ELSE NoHist
    /\ latestCommitmentCol = LatestDocs(GenesisCommitment)
    /\ mempool = {}
    /\ topupUnspent = ~config.regtest
    /\ faultsLeft = MaxFaults
    /\ last = NoTick

\* start: "fresh" the wallet holds only the funding output and the store is
\* empty; "tip" an earlier run left a confirmed attestation; "empty" the
\* wallet holds no staychain output at all.  The mainnet wallet also holds a
\* topup unspent.
Init ==
    /\ config \in Configs
    /\ atimeNewAttestation =
           AtimeFromConfig(config.newAttestationMinutes, DEFAULT_ATIME_NEW_ATTESTATION)
    /\ atimeHandleUnconfirmed =
           AtimeFromConfig(config.handleUnconfirmedMinutes, DEFAULT_ATIME_HANDLE_UNCONFIRMED)
    /\ proc = "running"
    /\ state = ASTATE_INIT
    /\ attestation = NewAttestationDefault
    /\ errorState = NIL
    /\ attestDelay = ATIME_STARTUP
    /\ sinceConfirm = SinceCap
    /\ currentFee = ResetFee(config.regtest)
    /\ startupLog = NewAttestService(config).log
    /\ confFile = NIL
    /\ InitWorld

\* the collaborator calls of each handler that can fail, the calls of each
\* handler that change something outside the process, at whose return the
\* process can be killed ("kill:" and the call), and the calls of each
\* handler that read again what an earlier call of the handler read, before
\* which the mempool can drop its transaction ("drop:" and the call)
Calls(s) ==
    CASE s = ASTATE_INIT ->
            {"getUnconfirmedTx", "findLastUnspent", NO_UNSPENT, "GetAttestationCommitment",
             "drop:GetRawTransaction", "GetRawTransaction", "GetTransaction",
             "UpdateLatestAttestation",
             "kill:UpdateLatestAttestation", "kill:SendConfirmedHash"}
      [] s = ASTATE_NEXT_COMMITMENT -> {"GetClientCommitment", "kill:SendNewHash"}
      [] s = ASTATE_NEW_ATTESTATION ->
            {"GetNextAttestationKey", "GetNextAttestationAddr", "ImportAttestationAddr",
             "findLastUnspent", NO_UNSPENT, "findTopupUnspent", "createAttestation",
             "kill:SendNewTx"}
      [] s = ASTATE_SIGN_ATTESTATION ->
            {"GetLatestAttestationCommitmentHash", "signAttestation"}
      [] s = ASTATE_PRE_SEND_STORE ->
            {"UpdateLatestAttestation", "kill:UpdateLatestAttestation"}
      [] s = ASTATE_SEND_ATTESTATION -> {"sendAttestation", "kill:sendAttestation"}
      [] s = ASTATE_AWAIT_CONFIRMATION ->
            {"GetTransaction", "UpdateLatestAttestation",
             "kill:UpdateLatestAttestation", "kill:SendConfirmedHash"}
      [] s = ASTATE_HANDLE_UNCONFIRMED -> {"bumpAttestationFees", "kill:SendNewTx"}
      [] OTHER -> {}

\* Run, one iteration: the timer fires attestDelay (plus lat) seconds after
\* the previous tick, doAttestation runs, regtest overwrites the delay unless
\* the process died inside the handler (a panic, or a kill at the return of
\* the call that f names).
\* The environment reads nothing of the service, so a step it takes while a
\* handler runs differs from the same step taken before or after the tick
\* only when the handler reads what the step changes both before and after
\* it.  One handler does: doStateInit reads the mempool in getUnconfirmedTx
\* and again, after waiting on the Store, in GetRawTransaction; the drop in
\* between is the tick with f = "drop:GetRawTransaction" (the transaction mined in
\* between gives what the tick followed by Mine gives).  A kill between two
\* calls is part of the tick as well.
\* Once ctx is done the select can still take the timer case when the timer
\* has already expired as the select is entered (a delay that is not positive):
\* with both cases ready the select picks either.
Tick(lat, f, sigs) ==
    /\ proc = "running" \/ (proc = "cancelled" /\ attestDelay <= 0)
    /\ \E w \in {doAttestation(
                    [state |-> state, attestation |-> attestation,
                     errorState |-> errorState, attestDelay |-> attestDelay,
                     since |-> Min(sinceConfirm + Max(attestDelay, 0) + lat, SinceCap),
                     fee |-> currentFee, attCol |-> attestationCol,
                     mcCol |-> merkleCommitmentCol, mempool |-> mempool,
                     log |-> <<>>, hist |-> hist, panic |-> FALSE,
                     kill |-> f, killed |-> FALSE], f, sigs)} :
          /\ state' = w.state
          /\ attestation' = w.attestation
          /\ errorState' = w.errorState
          /\ attestDelay' = IF config.regtest /\ ~w.panic /\ ~w.killed THEN ATIME_REGTEST
                            ELSE w.attestDelay
          /\ sinceConfirm' = IF w.state = ASTATE_AWAIT_CONFIRMATION THEN w.since ELSE SinceCap
          /\ currentFee' = w.fee
          /\ attestationCol' = w.attCol
          /\ merkleCommitmentCol' = w.mcCol
          /\ mempool' = w.mempool
          /\ hist' = w.hist
          /\ proc' = IF w.panic THEN "crashed" ELSE IF w.killed THEN "killed" ELSE proc
          /\ last' = [handler |-> state,
                      since |-> Min(sinceConfirm + Max(attestDelay, 0) + lat, SinceCap),
                      fault |-> f, log |-> w.log,
                      attestation |-> attestation, fee |-> currentFee,
                      delay |-> w.attestDelay]
    /\ faultsLeft' = IF f # NIL \/ ~sigs THEN faultsLeft - 1 ELSE faultsLeft
    /\ UNCHANGED <<cfgVars, latestCommitmentCol, chain, topupUnspent>>

\* a tick in which every collaborator call succeeds, or one in which one call
\* fails or the signers have not answered
DriverTick ==
    \E lat \in 0..MaxLatency :
        \/ Tick(lat, NIL, TRUE)
        \/ /\ faultsLeft > 0
           /\ \/ \E f \in Calls(state) :
                    /\ f = "drop:GetRawTransaction" => mempool # {}
                    /\ Tick(lat, f, TRUE)
              \/ state = ASTATE_SIGN_ATTESTATION /\ Tick(lat, NIL, FALSE)

\* the process is started again after a crash or a kill: NewAttestService
Restart ==
    /\ faultsLeft > 0 \/ proc \in {"crashed", "killed"}
    /\ faultsLeft' = IF proc \in {"crashed", "killed"} THEN faultsLeft ELSE faultsLeft - 1
    /\ proc' = "running"
    /\ state' = ASTATE_INIT
    /\ attestation' = NewAttestationDefault
    /\ errorState' = NIL
    /\ attestDelay' = ATIME_STARTUP
    /\ sinceConfirm' = SinceCap
    /\ currentFee' = ResetFee(config.regtest)
    /\ last' = NoTick
    /\ UNCHANGED <<cfgVars, storeVars, walletVars, hist>>

\* ------------------------------------------------------------------------
\* Environment
\* ------------------------------------------------------------------------
\* a client slot commits a new hash: the LatestCommitment collection changes
ClientCommit ==
    \E pos \in 1..MaxClients, h \in 1..MaxCommit :
        /\ LatestLeaves[pos] # h
        /\ latestCommitmentCol' = LatestDocs([LatestLeaves EXCEPT ![pos] = h])
        /\ UNCHANGED <<cfgVars, svcVars, attestationCol, merkleCommitmentCol,
                       walletVars, faultsLeft, last, hist>>

\* the mempool transaction is mined and becomes the staychain tip
Mine ==
    /\ mempool # {}
    /\ Len(chain) <= MaxMined
    /\ LET t == CHOOSE x \in mempool : TRUE
       IN /\ chain' = Append(chain, [tx |-> t, BlockHash |-> Len(chain) + 1])
          /\ topupUnspent' = (topupUnspent /\ ~t.topup)
    /\ mempool' = {}
    /\ UNCHANGED <<cfgVars, svcVars, storeVars, faultsLeft, last, hist>>

\* the mempool drops the transaction
Drop ==
    /\ faultsLeft > 0
    /\ mempool # {}
    /\ mempool' = {}
    /\ faultsLeft' = faultsLeft - 1
    /\ UNCHANGED <<cfgVars, svcVars, storeVars, chain, topupUnspent, last, hist>>

\* the cancellation signal is raised (ctx is done), while a handler runs or
\* while Run waits for the timer
Cancel ==
    /\ proc = "running"
    /\ faultsLeft > 0
    /\ faultsLeft' = faultsLeft - 1
    /\ proc' = "cancelled"
    /\ UNCHANGED <<cfgVars, state, attestation, errorState, attestDelay, sinceConfirm,
                   currentFee, storeVars, walletVars, last, hist>>

\* Run, the case <-s.ctx.Done() of the select: the driver returns
Exit ==
    /\ proc = "cancelled"
    /\ proc' = "exited"
    /\ UNCHANGED <<cfgVars, state, attestation, errorState, attestDelay, sinceConfirm,
                   currentFee, storeVars, walletVars, faultsLeft, last, hist>>

Next == DriverTick \/ Restart \/ Cancel \/ Exit \/ ClientCommit \/ Mine \/ Drop

\* ------------------------------------------------------------------------
\* Construction from any configuration
\* ------------------------------------------------------------------------
MaxMinutes == 2

\* TimingConfig values: -1 for an absent key, 0, and configured minutes.
\* InitTx strings: a txid, a short hex string, "not-a-hash"-like strings and
\* a hex string that is too long
ConfigInputs ==
    LET MinutesInputs == -1..MaxMinutes
        InitTxInputs ==
            { ValidInitTx,
              [len |-> 10, hex |-> TRUE],
              [len |-> 10, hex |-> FALSE],
              [len |-> MaxHashStringSize, hex |-> FALSE],
              [len |-> MaxHashStringSize + 1, hex |-> TRUE] }
    IN [regtest : BOOLEAN, newAttestationMinutes : MinutesInputs,
        handleUnconfirmedMinutes : MinutesInputs, initTx : InitTxInputs,
        fees : {DefaultFeesConfig}]

\* the process has started and main has read the configuration
InitConstruct ==
    /\ config \in ConfigInputs
    /\ atimeNewAttestation = 0
    /\ atimeHandleUnconfirmed = 0
    /\ startupLog = <<>>
    /\ confFile = NIL
    /\ proc = "starting"
    /\ state = ASTATE_INIT
    /\ attestation = NewAttestationDefault
    /\ errorState = NIL
    /\ attestDelay = ATIME_STARTUP
    /\ sinceConfirm = 0
    /\ currentFee = ResetFee(config.regtest)
    /\ InitWorld

\* main calls NewAttestService and, unless it aborted, starts Run
Construct ==
    /\ proc = "starting"
    /\ \E s \in {NewAttestService(config)} :
          IF s.fatal
          THEN /\ proc' = "aborted"
               /\ UNCHANGED <<atimeNewAttestation, atimeHandleUnconfirmed, startupLog,
                              sinceConfirm>>
          ELSE /\ proc' = "running"
               /\ atimeNewAttestation' = s.atimeNewAttestation
               /\ atimeHandleUnconfirmed' = s.atimeHandleUnconfirmed
               /\ startupLog' = s.log
               /\ sinceConfirm' = s.atimeHandleUnconfirmed + 1
    /\ UNCHANGED <<config, confFile, state, attestation, errorState, attestDelay,
                   currentFee, storeVars, walletVars, faultsLeft, last, hist>>

NextConstruct == Construct \/ DriverTick

\* ------------------------------------------------------------------------
\* config.NewConfig: from the configuration file to the Config.  A file is a
\* function from section names to sections, a section a function from
\* parameter names to strings.
\* ------------------------------------------------------------------------
ERROR_CONFIG_NAME_NOT_FOUND == "config name not found"
ERROR_CONFIG_VALUE_NOT_FOUND == "config value not found"


\* the required parameters in the order they are looked up
MainParams == <<"rpcurl", "rpcuser", "rpcpass", "chain">>

DbParams == <<"password", "host", "port", "name">>

SignerParams == <<"signers">>

FeesParams == {"minFee", "maxFee", "feeIncrement"}

TimingParams == {"newAttestationMinutes", "handleUnconfirmedMinutes"}

\* fmt.Sprintf("%s: %s", kind, name)
ConfigError(kind, name) == kind \o ": " \o name

\* the largest number written in a configuration file
MaxAtoi == 60

\* strconv.Atoi on the decimal strings of 0..MaxAtoi and on other strings
Atoi(s) ==
    IF \E n \in 0..MaxAtoi : ToString(n) = s
    THEN [err |-> NIL, val |-> CHOOSE n \in 0..MaxAtoi : ToString(n) = s]
    ELSE [err |-> "invalid syntax", val |-> 0]

\* the value of parameter name in section baseName
GetParamFromConf(baseName, name, conf) ==
    IF baseName \notin DOMAIN conf
    THEN [err |-> ConfigError(ERROR_CONFIG_NAME_NOT_FOUND, baseName), val |-> ""]
    ELSE IF name \notin DOMAIN conf[baseName]
    THEN [err |-> ConfigError(ERROR_CONFIG_VALUE_NOT_FOUND, name), val |-> ""]
    ELSE [err |-> NIL, val |-> conf[baseName][name]]

\* mutant: every parameter is looked up and the last error is returned
RECURSIVE RequireParams_LastMissing(_, _, _)
RequireParams_LastMissing(baseName, names, conf) ==
    IF names = <<>> THEN NIL
    ELSE LET p == GetParamFromConf(baseName, Head(names), conf)
             rest == RequireParams_LastMissing(baseName, Tail(names), conf)
         IN IF rest # NIL THEN rest ELSE p.err

\* look the parameters up in order and return the error of the first one
\* that is not found
RECURSIVE RequireParams(_, _, _)
RequireParams(baseName, names, conf) ==
    IF names = <<>> THEN NIL
    ELSE LET p == GetParamFromConf(baseName, Head(names), conf)
         IN IF p.err # NIL THEN p.err
            ELSE RequireParams(baseName, Tail(names), conf)

\* an optional numeric parameter: -1 when it is not found or not a number
TryGetInt(baseName, name, conf) ==
    LET p == GetParamFromConf(baseName, name, conf)
    IN IF p.err # NIL THEN -1
       ELSE IF Atoi(p.val).err # NIL THEN -1
       ELSE Atoi(p.val).val

\* the empty string as an init txid
EmptyInitTx == [len |-> 0, hex |-> TRUE]

\* NewConfig: the error of the first required value missing, else the Config.
\* The tests have the main section checked first and give the order inside
\* the db section; no test has a db and a signer section that are both
\* incomplete, so which of the two NewConfig checks first is not known:
\* dbFirst is that order.
NewConfig(conf, dbFirst) ==
    LET mainErr == RequireParams("main", MainParams, conf)
        dbErr == IF "db" \in DOMAIN conf
                 THEN RequireParams("db", DbParams, conf) ELSE NIL
        signerErr == IF "signer" \in DOMAIN conf
                     THEN RequireParams("signer", SignerParams, conf) ELSE NIL
        initTx == GetParamFromConf("staychain", "initTx", conf)
        regtest == GetParamFromConf("staychain", "regtest", conf)
    IN [err |-> IF mainErr # NIL THEN mainErr
                ELSE IF dbFirst THEN (IF dbErr # NIL THEN dbErr ELSE signerErr)
                ELSE IF signerErr # NIL THEN signerErr
                ELSE dbErr,
        config |->
            [regtest |-> regtest.err = NIL /\ regtest.val = "1",
             initTx |-> IF initTx.err = NIL THEN initTx.val ELSE EmptyInitTx,
             newAttestationMinutes |->
                 TryGetInt("timing", "newAttestationMinutes", conf),
             handleUnconfirmedMinutes |->
                 TryGetInt("timing", "handleUnconfirmedMinutes", conf),
             fees |-> [minFee |-> TryGetInt("fees", "minFee", conf),
                       maxFee |-> TryGetInt("fees", "maxFee", conf),
                       feeIncrement |->
                           TryGetInt("fees", "feeIncrement", conf)]]]

\* the sections with any subset of the parameters, each with a value of vals
Sections(names, vals) == UNION {[S -> vals] : S \in SUBSET names}

\* a file part without the section, or with one of the sections
OptionalSection(baseName, secs) == {<<>>} \cup {baseName :> s : s \in secs}

\* a main section with every required parameter
FullMain ==
    [rpcurl |-> "localhost:18443", rpcuser |-> "user", rpcpass |-> "pass",
     chain |-> "regtest"]

\* the files of TestConfigErrors, TestConfigSigner and TestConfigActual with
\* the error expected of each
ConfigErrorTests ==
    LET m(names, chainName) ==
            [n \in names |-> IF n = "chain" THEN chainName ELSE ""]
        all == {"rpcurl", "rpcuser", "rpcpass",
                "chain"}
        db(names) == [main |-> m(all, "testnet"), db |-> [n \in names |-> ""]]
        missing(name) == ConfigError(ERROR_CONFIG_VALUE_NOT_FOUND, name)
    IN { [conf |-> <<>>,
          err |-> ConfigError(ERROR_CONFIG_NAME_NOT_FOUND, "main")],
         [conf |-> [main |-> <<>>], err |-> missing("rpcurl")],
         [conf |-> [main |-> m({"rpcurl"}, "")],
          err |-> missing("rpcuser")],
         [conf |-> [main |-> m({"rpcurl", "rpcuser"}, "")],
          err |-> missing("rpcpass")],
         [conf |-> [main |-> m(all \ {"chain"}, "")],
          err |-> missing("chain")],
         [conf |-> [main |-> m(all, "testnet")], err |-> NIL],
         [conf |-> [main |-> m(all, "allaloum")], err |-> NIL],
         [conf |-> db({"user"}), err |-> missing("password")],
         [conf |-> db({"user", "password"}), err |-> missing("host")],
         [conf |-> db({"user", "password", "host"}),
          err |-> missing("port")],
         [conf |-> db({"user", "password", "host", "port"}),
          err |-> missing("name")],
         [conf |-> db({"user", "password", "host", "port",
                       "name"}),
          err |-> NIL],
         [conf |-> [main |-> m(all, ""), signer |-> <<>>],
          err |-> missing("signers")],
         [conf |-> [main |-> m(all, ""), signer |-> [signers |-> "host"]], err |-> NIL],
         [conf |-> [main |-> m(all, ""),
                    signer |-> [signers |-> "host", publisher |-> "*:5000"]],
          err |-> NIL],
         [conf |-> [main |-> FullMain,
                    signer |-> [signers |-> "127.0.0.1:12345,127.0.0.1:12346"],
                    db |-> [user |-> "username1", password |-> "password2",
                            host |-> "localhost", port |-> "27017",
                            name |-> "mainstay"]],
          err |-> NIL] }

\* the files of TestConfigFees with the FeesConfig expected of each
ConfigFeesTests ==
    { [conf |-> [main |-> FullMain, fees |-> <<>>],
       fees |-> [minFee |-> -1, maxFee |-> -1, feeIncrement |-> -1]],
      [conf |-> [main |-> FullMain, fees |-> [minFee |-> "1"]],
       fees |-> [minFee |-> 1, maxFee |-> -1, feeIncrement |-> -1]],
      [conf |-> [main |-> FullMain, fees |-> [minFee |-> "invalid"]],
       fees |-> [minFee |-> -1, maxFee |-> -1, feeIncrement |-> -1]],
      [conf |-> [main |-> FullMain,
                 fees |-> ("maxFee" :> "10" @@ "minFee" :> "5" @@ "feeIncrement" :> "11"
                           @@ "something-else" :> "nice-value")],
       fees |-> [minFee |-> 5, maxFee |-> 10, feeIncrement |-> 11]] }

\* the files of TestConfigTiming with the TimingConfig expected of each
ConfigTimingTests ==
    { [conf |-> [main |-> FullMain, timing |-> <<>>],
       timing |-> <<-1, -1>>],
      [conf |-> [main |-> FullMain, timing |-> [newAttestationMinutes |-> "0"]],
       timing |-> <<0, -1>>],
      [conf |-> [main |-> FullMain, timing |-> [handleUnconfirmedMinutes |-> "0"]],
       timing |-> <<-1, 0>>],
      [conf |-> [main |-> FullMain,
                 timing |-> [newAttestationMinutes |-> "10",
                             handleUnconfirmedMinutes |-> "60"]],
       timing |-> <<10, 60>>] }

\* the section has every parameter of names
Complete(sec, names) == \A i \in 1..Len(names) : names[i] \in DOMAIN sec

\* files with any required parameter missing, in any of the main, db and
\* signer sections at once; a db section always names the user, as every db
\* section of the tests does
RequiredInputs ==
    { m @@ d @@ s :
        m \in OptionalSection("main",
                 Sections({"rpcurl", "rpcuser", "rpcpass", "chain"}, {""})),
        d \in OptionalSection("db",
                 { sec \in Sections({"user", "password", "host", "port", "name"}, {""}) :
                     "user" \in DOMAIN sec }),
        s \in OptionalSection("signer", Sections({"signers"}, {"host"})) }

\* files with every required parameter and any optional fees, timing and
\* staychain parameters
\* (IntStrings: the values of an optional numeric parameter)
OptionalInputs ==
    LET IntStrings == {"invalid"} \cup {ToString(n) : n \in 0..MaxMinutes}
    IN { [main |-> FullMain] @@ f @@ t @@ s :
           f \in OptionalSection("fees", Sections(FeesParams, IntStrings)),
           t \in OptionalSection("timing", Sections(TimingParams, IntStrings)),
           s \in OptionalSection("staychain",
                    {<<>>, [initTx |-> ValidInitTx, regtest |-> "1"]}) }

ConfFileInputs ==
    RequiredInputs \cup OptionalInputs
        \cup {t.conf : t \in ConfigErrorTests \cup ConfigFeesTests \cup ConfigTimingTests}

\* the Config before NewConfig has filled it
ZeroConfig ==
    [regtest |-> FALSE, newAttestationMinutes |-> 0, handleUnconfirmedMinutes |-> 0,
     initTx |-> EmptyInitTx, fees |-> [minFee |-> 0, maxFee |-> 0, feeIncrement |-> 0]]

\* the process has started with some configuration file
InitConfig ==
    /\ confFile \in ConfFileInputs
    /\ config = ZeroConfig
    /\ atimeNewAttestation = 0
    /\ atimeHandleUnconfirmed = 0
    /\ startupLog = <<>>
    /\ proc = "unconfigured"
    /\ state = ASTATE_INIT
    /\ attestation = NewAttestationDefault
    /\ errorState = NIL
    /\ attestDelay = ATIME_STARTUP
    /\ sinceConfirm = 0
    /\ currentFee = ResetFee(FALSE)
    /\ InitWorld

\* main calls NewConfig and stops with its error, or goes on to
\* NewAttestService with the Config
LoadConfig ==
    /\ proc = "unconfigured"
    /\ \E r \in {NewConfig(confFile, dbFirst) : dbFirst \in BOOLEAN} :
          IF r.err # NIL
          THEN /\ proc' = "aborted"
               /\ startupLog' = <<r.err>>
               /\ UNCHANGED <<config, currentFee>>
          ELSE /\ proc' = "starting"
               /\ config' = r.config
               /\ currentFee' = ResetFee(r.config.regtest)
               /\ UNCHANGED startupLog
    /\ UNCHANGED <<confFile, atimeNewAttestation, atimeHandleUnconfirmed, state,
                   attestation, errorState, attestDelay, sinceConfirm, storeVars,
                   walletVars, faultsLeft, last, hist>>

NextConfig == LoadConfig \/ Construct

ConfigSpec == InitConfig /\ [][NextConfig]_vars

\* ------------------------------------------------------------------------
\* The Store on its own: any sequence of UpdateLatestAttestation calls and
\* client commitments
\* ------------------------------------------------------------------------
MaxRecords == 3

\* an empty database, no service running
InitStore ==
    /\ config \in Configs
    /\ atimeNewAttestation = NewAttestService(config).atimeNewAttestation
    /\ atimeHandleUnconfirmed = NewAttestService(config).atimeHandleUnconfirmed
    /\ startupLog = <<>>
    /\ confFile = NIL
    /\ proc = "exited"
    /\ state = ASTATE_INIT
    /\ attestation = NewAttestationDefault
    /\ errorState = NIL
    /\ attestDelay = ATIME_STARTUP
    /\ sinceConfirm = SinceCap
    /\ currentFee = ResetFee(config.regtest)
    /\ attestationCol = <<>>
    /\ merkleCommitmentCol = {}
    /\ latestCommitmentCol = LatestDocs(GenesisCommitment)
    /\ chain = <<>>
    /\ mempool = {}
    /\ topupUnspent = FALSE
    /\ hist = NoHist
    /\ faultsLeft = 0
    /\ last = NoTick

\* one call of Server.UpdateLatestAttestation with any attestation
StoreUpdate ==
    \E txid \in {TxHash(FundingTx), TxHash(PriorTx)},
       c \in [1..MaxClients -> 1..MaxCommit], confirmed \in BOOLEAN :
        /\ Len(attestationCol) < MaxRecords
              \/ \E i \in 1..Len(attestationCol) :
                    /\ attestationCol[i].txid = txid
                    /\ attestationCol[i].merkle_root = GetCommitmentHash(c)
        /\ \E w \in {UpdateLatestAttestation(
                         [attCol |-> attestationCol, mcCol |-> merkleCommitmentCol,
                          log |-> <<>>, hist |-> hist, kill |-> NIL, killed |-> FALSE],
                         NIL,
                         [NewAttestation(txid, c) EXCEPT !.Confirmed = confirmed])} :
              /\ attestationCol' = w.attCol
              /\ merkleCommitmentCol' = w.mcCol
              /\ hist' = w.hist
              /\ last' = [NoTick EXCEPT !.log = w.log]
        /\ UNCHANGED <<cfgVars, svcVars, latestCommitmentCol, walletVars, faultsLeft>>

NextStore == StoreUpdate \/ ClientCommit

StoreSpec == InitStore /\ [][NextStore]_vars

ConstructSpec == InitConstruct /\ [][NextConstruct]_vars

Spec == Init /\ [][Next]_vars

\* the Run loop keeps ticking and the network keeps mining
LiveSpec == Init /\ [][Next]_vars /\ WF_vars(DriverTick) /\ WF_vars(Mine)

TypeOK ==
    /\ state \in ASTATE_ERROR..ASTATE_HANDLE_UNCONFIRMED
    /\ currentFee \in FeeMin..FeeMax
    /\ proc \in {"running", "crashed", "killed", "cancelled", "exited", "starting",
                "aborted", "unconfigured"}

\* ------------------------------------------------------------------------
\* Observations on the last tick
\* ------------------------------------------------------------------------
\* the events of the last tick's collaborator calls of one kind
Events(op) == SelectSeq(last.log, LAMBDA e : e.op = op)

LogHas(op) == Events(op) # <<>>

\* the call was made in the last tick and returned no error
LogOk(op) == \E i \in 1..Len(last.log) : last.log[i].op = op /\ last.log[i].err = NIL

\* the call was made in the last tick and returned an error
LogFailed(op) == \E i \in 1..Len(last.log) : last.log[i].op = op /\ last.log[i].err # NIL

\* the handler of the last tick returned: the process neither panicked nor
\* was killed inside it
Returned == proc \notin {"crashed", "killed"}

\* messages published to the signers in the last tick
Published ==
    SelectSeq(last.log, LAMBDA e : e.op \in {"SendNewHash", "SendNewTx", "SendConfirmedHash"})

\* the commitment root an attestation transaction pays to
PaytoRoot(tx) == tx.payto[2]

GenesisRoot == MerkleRoot(GenesisCommitment)

\* ------------------------------------------------------------------------
\* Claims
\* ------------------------------------------------------------------------

\* C1: every broadcast of an attestation transaction by SendAttestation is
\* preceded by a successful UpdateLatestAttestation of the same attestation
\* (same txid, same commitment root) with confirmed = false, made in an
\* earlier tick; when the PreSendStore persist fails the state does not become
\* SendAttestation and nothing is broadcast on that pass.
C1_PersistBeforeBroadcast ==
    /\ \A b \in hist.broadcast :
          \E p \in hist.persisted :
              p.txid = b.txid /\ p.root = b.root /\ ~p.confirmed
    /\ LogOk("sendAttestation") => ~LogHas("UpdateLatestAttestation")
    /\ (last.handler = ASTATE_PRE_SEND_STORE /\ LogFailed("UpdateLatestAttestation"))
          => (state = ASTATE_ERROR /\ ~LogHas("sendAttestation"))

\* C1 witness: a SendAttestation tick has just broadcast a transaction
C1_Witness ==
    /\ last.handler = ASTATE_SEND_ATTESTATION
    /\ LogOk("sendAttestation")
    /\ state = ASTATE_AWAIT_CONFIRMATION
    /\ mempool = {attestation.Tx}

\* C2: SendAttestation is entered only from PreSendStore and PreSendStore only
\* from SignAttestation, so the driver never reaches SendAttestation from
\* NewAttestation (or from HandleUnconfirmed on the re-sign pass) without
\* passing through SignAttestation and PreSendStore.
C2_SendOnlyViaSignAndStore ==
    [][ /\ (state' = ASTATE_SEND_ATTESTATION /\ state # ASTATE_SEND_ATTESTATION)
            => state = ASTATE_PRE_SEND_STORE
        /\ (state' = ASTATE_PRE_SEND_STORE /\ state # ASTATE_PRE_SEND_STORE)
            => state = ASTATE_SIGN_ATTESTATION ]_vars

\* C2 witness: SendAttestation entered from PreSendStore on a re-sign pass,
\* the transaction of the first pass still being in the mempool
C2_Witness ==
    /\ state = ASTATE_SEND_ATTESTATION
    /\ last.handler = ASTATE_PRE_SEND_STORE
    /\ mempool # {}

\* C3 (as claimed): whenever a collaborator call of the last tick returned an
\* error, the tick ended with state = Error and that error stored, and the
\* tick after an Error state ends in Init.
C3_EveryErrorCaptured ==
    /\ \A i \in 1..Len(last.log) :
          last.log[i].err # NIL
              => (state = ASTATE_ERROR /\ errorState = last.log[i].err)
    /\ (last.handler = ASTATE_ERROR /\ proc = "running") => state = ASTATE_INIT

\* C4: for each attestation the observable events happen in the order
\* new-hash, new-tx, get-sigs, persist unconfirmed, broadcast, confirmed-hash:
\* each event is preceded by the one before it for the same attestation.
C4_EventOrder ==
    /\ \A t \in hist.newTx : PaytoRoot(t) \in hist.newHash
    /\ \A t \in hist.sigs : t \in hist.newTx
    /\ \A p \in hist.persisted :
          ~p.confirmed => (p.txid = TxHash(p.tx) /\ Unsigned(p.tx) \in hist.sigs)
    /\ \A b \in hist.broadcast :
          \E p \in hist.persisted :
              p.txid = b.txid /\ p.root = b.root /\ ~p.confirmed /\ p.root = PaytoRoot(p.tx)
    /\ \A p \in hist.persisted :
          p.confirmed => \E b \in hist.broadcast : b.txid = p.txid /\ b.root = p.root
    /\ \A r \in hist.confirmedHash :
          r # ZeroRoot => \E b \in hist.broadcast : b.root = r

\* C4 witness: the confirmed-hash of an attestation made in this run was sent
\* after an Error/Init reset
C4_Witness ==
    /\ \E r \in hist.confirmedHash : r # ZeroRoot /\ r # GenesisRoot
    /\ errorState # NIL

\* the root of the Store's latest client commitment
LatestRoot == MerkleRoot(LatestLeaves)

\* the roots client commitments can have
Roots == {MerkleRoot(l) : l \in [1..MaxClients -> 1..MaxCommit]}

\* the Store holds a confirmed attestation of root r
ConfirmedFor(r) ==
    \E i \in 1..Len(attestationCol) :
        attestationCol[i].merkle_root = r /\ attestationCol[i].confirmed

\* C5 (as claimed): an Init tick without call failures that finds in the
\* mempool a transaction this service broadcast loads its commitment from the
\* Store, takes over its txid, raw transaction and commitment as the current
\* attestation, and ends in AwaitConfirmation with confirmTime = now.
C5_InitRecoversUnconfirmed ==
    \A i \in 1..Len(last.log) :
        \A b \in hist.broadcast :
            ( /\ last.handler = ASTATE_INIT
              /\ last.fault = NIL
              /\ last.log[i].op = "getUnconfirmedTx"
              /\ last.log[i].flag
              /\ last.log[i].txid = b.txid )
            => ( /\ LogOk("GetAttestationCommitment")
                 /\ state = ASTATE_AWAIT_CONFIRMATION
                 /\ attestation.Txid = b.txid
                 /\ attestation.Tx = b.tx
                 /\ CommitmentHash(attestation) = b.root
                 /\ sinceConfirm = 0 )

\* the staychain tip is an attestation the Store holds as confirmed
TipAttested ==
    /\ chain # <<>>
    /\ ConfirmedFor(PaytoRoot(chain[Len(chain)].tx))

\* C6 (as claimed): under fair ticking and mining, once no call fails any
\* more, the process runs, the wallet holds the attested staychain tip and a
\* block can still be mined, a latest client commitment r that is not yet
\* attested is eventually persisted with confirmed = true with the driver
\* back in NextCommitment (unless the clients commit something else meanwhile).
C6_EventuallyAttested ==
    \A r \in Roots :
        ( /\ faultsLeft = 0
          /\ proc = "running"
          /\ TipAttested
          /\ Len(chain) <= MaxMined
          /\ LatestRoot = r
          /\ ~ConfirmedFor(r) )
        ~> ( \/ ConfirmedFor(r) /\ state = ASTATE_NEXT_COMMITMENT
             \/ LatestRoot # r
             \/ Len(chain) > MaxMined )

\* the last tick was a NextCommitment tick in which the Store's latest client
\* commitment had the root of the current attestation
CaughtUpTick ==
    /\ last.handler = ASTATE_NEXT_COMMITMENT
    /\ \E i \in 1..Len(last.log) :
          /\ last.log[i].op = "GetClientCommitment"
          /\ last.log[i].err = NIL
          /\ last.log[i].root = CommitmentHash(last.attestation)

\* C7 (as claimed): after a caught-up NextCommitment tick the state is still
\* NextCommitment, nothing was published, the attestation is unchanged and
\* the delay before the next tick is atimeNewAttestation in every
\* configuration, regtest included.
C7_CaughtUpDelayAnyConfig ==
    CaughtUpTick =>
        /\ state = ASTATE_NEXT_COMMITMENT
        /\ Published = <<>>
        /\ attestation = last.attestation
        /\ attestDelay = atimeNewAttestation

\* C7 (amended): after a caught-up NextCommitment tick the state is still
\* NextCommitment, nothing was published, the attestation is unchanged and
\* the handler has set the delay to atimeNewAttestation; the delay before the
\* next tick is atimeNewAttestation outside regtest and 10 s in regtest.
C7_CaughtUpDelay ==
    CaughtUpTick =>
        /\ state = ASTATE_NEXT_COMMITMENT
        /\ Published = <<>>
        /\ attestation = last.attestation
        /\ last.delay = atimeNewAttestation
        /\ attestDelay = IF config.regtest THEN ATIME_REGTEST ELSE atimeNewAttestation

\* C7 witness: a caught-up tick on an attestation made in this run, in regtest
C7_Witness ==
    /\ CaughtUpTick
    /\ config.regtest
    /\ attestation.Confirmed
    /\ CommitmentHash(attestation) # GenesisRoot

\* what a newly started process would make of the same Store and wallet in
\* its Init tick
FreshInit ==
    doStateInit([state |-> ASTATE_INIT, attestation |-> NewAttestationDefault,
                 errorState |-> NIL, attestDelay |-> ATIME_FIXED, since |-> SinceCap,
                 fee |-> ResetFee(config.regtest), attCol |-> attestationCol,
                 mcCol |-> merkleCommitmentCol, mempool |-> mempool,
                 log |-> <<>>, hist |-> hist, panic |-> FALSE,
                 kill |-> NIL, killed |-> FALSE], NIL)

\* C8 (as claimed): an Init tick that leaves Init leaves the driver with the
\* in-flight attestation, the confirmTime and the fee rate that a newly
\* started process would have on the same Store and wallet: nothing of the
\* history before the reset remains.
C8_NoLeakAcrossReset ==
    [][ (state = ASTATE_INIT
            /\ state' \in {ASTATE_NEXT_COMMITMENT, ASTATE_AWAIT_CONFIRMATION})
        => /\ state' = FreshInit.state
           /\ attestation' = FreshInit.attestation
           /\ sinceConfirm' = IF FreshInit.state = ASTATE_AWAIT_CONFIRMATION
                              THEN FreshInit.since ELSE SinceCap
           /\ currentFee' = FreshInit.fee ]_vars

\* C9 (as claimed): the commitment root a SignAttestation tick passes to
\* signAttestation is the root of the confirmed attestation whose output the
\* in-flight transaction spends, on the first pass and on re-sign passes.
C9_SignsWithConfirmedRoot ==
    \A i \in 1..Len(last.log) :
        (last.handler = ASTATE_SIGN_ATTESTATION /\ last.log[i].op = "signAttestation")
        => \E j \in 1..Len(chain) :
              /\ TxHash(chain[j].tx) = last.attestation.Tx.prev
              /\ last.log[i].root = PaytoRoot(chain[j].tx)

\* the last tick was an AwaitConfirmation tick, within atimeHandleUnconfirmed
\* of confirmTime, in which the wallet reported a block hash (mined) or an
\* empty one
AwaitTick(mined) ==
    /\ last.handler = ASTATE_AWAIT_CONFIRMATION
    /\ last.since <= atimeHandleUnconfirmed
    /\ \E i \in 1..Len(last.log) :
          /\ last.log[i].op = "GetTransaction"
          /\ last.log[i].err = NIL
          /\ last.log[i].flag = mined

\* the attestation of the last tick is confirmed, carries its block and was
\* persisted as confirmed, the fee policy is reset, the one message published
\* is the confirmed-hash of its root and the state is NextCommitment
ConfirmationHandled ==
    /\ attestation = [last.attestation EXCEPT !.Confirmed = TRUE,
                                               !.BlockHash = attestation.BlockHash]
    /\ attestation.BlockHash # 0
    /\ \E i \in 1..Len(attestationCol) :
          /\ attestationCol[i].txid = attestation.Txid
          /\ attestationCol[i].merkle_root = CommitmentHash(attestation)
          /\ attestationCol[i].confirmed
    /\ LogOk("UpdateLatestAttestation")
    /\ LogHas("ResetFee")
    /\ currentFee = ResetFee(config.regtest)
    /\ Len(Published) = 1
    /\ Published[1].op = "SendConfirmedHash"
    /\ Published[1].root = CommitmentHash(last.attestation)
    /\ state = ASTATE_NEXT_COMMITMENT

\* the state is still AwaitConfirmation and nothing was persisted or published
StillAwaiting ==
    /\ state = ASTATE_AWAIT_CONFIRMATION
    /\ attestation = last.attestation
    /\ ~LogHas("UpdateLatestAttestation")
    /\ Published = <<>>

\* C10 (as claimed): an AwaitConfirmation tick within atimeHandleUnconfirmed
\* that sees a block hash confirms, persists, resets the fee policy, sends the
\* confirmed-hash, moves to NextCommitment and makes the delay before the next
\* tick atimeNewAttestation - (now - confirmTime); one that sees none stays
\* with a delay of ATIME_CONFIRMATION, persisting and publishing nothing.
C10_AwaitConfirmationAsClaimed ==
    /\ AwaitTick(TRUE) =>
          (ConfirmationHandled /\ attestDelay = atimeNewAttestation - last.since)
    /\ AwaitTick(FALSE) =>
          (StillAwaiting /\ attestDelay = ATIME_CONFIRMATION)

\* C10 (amended): as claimed when the persist of the confirmed attestation
\* succeeds and the handler returns, the delays being those the handler sets;
\* the delay before the next tick is that value outside regtest and 10 s in
\* regtest.  When the persist fails the tick ends in Error, the fee policy is
\* not reset and nothing is published.
C10_AwaitConfirmation ==
    /\ (AwaitTick(TRUE) /\ ~LogFailed("UpdateLatestAttestation") /\ Returned) =>
          /\ ConfirmationHandled
          /\ last.delay = atimeNewAttestation - last.since
          /\ attestDelay = IF config.regtest THEN ATIME_REGTEST ELSE last.delay
    /\ (AwaitTick(TRUE) /\ LogFailed("UpdateLatestAttestation")) =>
          /\ state = ASTATE_ERROR
          /\ currentFee = last.fee
          /\ Published = <<>>
    /\ AwaitTick(FALSE) =>
          /\ StillAwaiting
          /\ last.delay = ATIME_CONFIRMATION
          /\ attestDelay = IF config.regtest THEN ATIME_REGTEST ELSE ATIME_CONFIRMATION

\* C10 witness: a confirmation seen some time after the broadcast of a
\* fee-bumped transaction, outside regtest
C10_Witness ==
    /\ AwaitTick(TRUE)
    /\ ~config.regtest
    /\ last.since > 0
    /\ last.fee > ResetFee(config.regtest)
    /\ state = ASTATE_NEXT_COMMITMENT

\* the transaction with this txid has been mined
Mined(txid) == \E j \in 1..Len(chain) : TxHash(chain[j].tx) = txid

\* C11: an AwaitConfirmation tick more than atimeHandleUnconfirmed after
\* confirmTime moves to HandleUnconfirmed without any collaborator call (no
\* wallet query, no persist, no publish) and leaves the attestation and the
\* fee policy alone, whether or not the transaction has been mined; a tick
\* within the threshold that sees no block hash does not move there, so
\* HandleUnconfirmed is entered only by the first tick past the threshold.
C11_HandleUnconfirmedAfterThreshold ==
    /\ (last.handler = ASTATE_AWAIT_CONFIRMATION /\ last.since > atimeHandleUnconfirmed)
          => /\ state = ASTATE_HANDLE_UNCONFIRMED
             /\ last.log = <<>>
             /\ attestation = last.attestation
             /\ currentFee = last.fee
    /\ (last.handler = ASTATE_AWAIT_CONFIRMATION /\ last.since <= atimeHandleUnconfirmed)
          => state # ASTATE_HANDLE_UNCONFIRMED
    /\ (state = ASTATE_HANDLE_UNCONFIRMED /\ Returned)
          => (last.handler = ASTATE_AWAIT_CONFIRMATION /\ last.since > atimeHandleUnconfirmed)

\* C11 witness: the driver has moved to HandleUnconfirmed although the
\* transaction was already mined when the tick ran (the mempool was empty and
\* no store record says confirmed)
C11_Witness ==
    /\ last.handler = ASTATE_AWAIT_CONFIRMATION
    /\ last.since > atimeHandleUnconfirmed
    /\ state = ASTATE_HANDLE_UNCONFIRMED
    /\ Mined(attestation.Txid)

\* the last tick was a HandleUnconfirmed tick
HandleTick == last.handler = ASTATE_HANDLE_UNCONFIRMED

\* C12: a HandleUnconfirmed tick whose bump succeeds and whose handler
\* returns bumps the fee policy
\* once, keeps the inputs and the pay-to address of the in-flight transaction,
\* puts the bumped fee on it and clears its scriptSigs, publishes that unsigned
\* transaction to the signers exactly once, moves to SignAttestation and sets
\* the delay to ATIME_SIGS; when the bump fails nothing is published and the
\* state is Error.
C12_HandleUnconfirmed ==
    /\ (HandleTick /\ LogOk("bumpAttestationFees") /\ Returned) =>
          /\ currentFee = BumpFee(last.fee)
          /\ attestation.Tx = [Unsigned(last.attestation.Tx) EXCEPT !.fee = currentFee]
          /\ attestation.Tx.prev = last.attestation.Tx.prev
          /\ attestation.Tx.topup = last.attestation.Tx.topup
          /\ attestation.Tx.payto = last.attestation.Tx.payto
          /\ ~attestation.Tx.signed
          /\ Len(Published) = 1
          /\ Published[1].op = "SendNewTx"
          /\ Published[1].txid = TxHash(attestation.Tx)
          /\ state = ASTATE_SIGN_ATTESTATION
          /\ last.delay = ATIME_SIGS
    /\ (HandleTick /\ LogFailed("bumpAttestationFees")) =>
          /\ Published = <<>>
          /\ state = ASTATE_ERROR
          /\ attestation = last.attestation

\* C12 witness: a signed in-flight transaction has been bumped and published
C12_Witness ==
    /\ HandleTick
    /\ last.attestation.Tx.signed
    /\ currentFee > last.fee
    /\ state = ASTATE_SIGN_ATTESTATION

\* C13: the fee rate is always within [min, max]; a HandleUnconfirmed pass
\* sets it to min(old + increment, max), at the maximum it stays there; after
\* a reset it equals the baseline of the configuration.
C13_FeeBounds ==
    /\ FeeMin <= currentFee /\ currentFee <= FeeMax
    /\ (HandleTick /\ LogOk("bumpAttestationFees"))
          => currentFee = Min(last.fee + FeeIncrement, FeeMax)
    /\ LogHas("ResetFee") => currentFee = FeeBaseline(config.regtest)

\* C13 witness: a bump at the maximum fee rate
C13_Witness ==
    /\ HandleTick
    /\ LogOk("bumpAttestationFees")
    /\ last.fee = FeeMax
    /\ currentFee = FeeMax

\* the last tick was an Init tick in which the wallet reported no unconfirmed
\* transaction and answered the query for the last unspent (found or not)
InitNoUnconfirmedTick(found) ==
    /\ last.handler = ASTATE_INIT
    /\ \E i \in 1..Len(last.log) :
          /\ last.log[i].op = "getUnconfirmedTx"
          /\ last.log[i].err = NIL
          /\ ~last.log[i].flag
    /\ \E i \in 1..Len(last.log) :
          /\ last.log[i].op = "findLastUnspent"
          /\ last.log[i].err = NIL
          /\ last.log[i].flag = found

\* the txid of the last unspent the wallet reported in the last tick
LastUnspentTxid == Events("findLastUnspent")[1].txid

\* the last tick was an Init tick of the unspent branch in which the Store
\* returned the Commitment of the unspent's txid and the wallet returned its
\* transaction
InitUnspentLoadedTick ==
    /\ InitNoUnconfirmedTick(TRUE)
    /\ LogOk("GetAttestationCommitment")
    /\ ~LogFailed("GetRawTransaction")
    /\ ~LogFailed("GetTransaction")

\* C14 (as claimed): in an Init tick with no unconfirmed transaction where the
\* Store holds an attestation of the txid of the wallet's last unspent and the
\* Merkle commitments of its root, and no call is made to fail, the current
\* attestation becomes the attestation of that txid with the tip's
\* transaction and block, marked confirmed; it is persisted as confirmed, the
\* confirmed-hash with its commitment root is the one message sent to the
\* signers and the state becomes NextCommitment; when the persist is made to
\* fail the state is Error and nothing is sent.
C14_InitUnspentStored ==
    LET StoredCommitmentTick ==
            /\ InitNoUnconfirmedTick(TRUE)
            /\ \E i \in 1..Len(attestationCol) :
                  /\ attestationCol[i].txid = LastUnspentTxid
                  /\ \E d \in merkleCommitmentCol :
                        d.merkle_root = attestationCol[i].merkle_root
    IN /\ (StoredCommitmentTick /\ last.fault = NIL) =>
              /\ attestation.Txid = LastUnspentTxid
              /\ attestation.Confirmed
              /\ attestation.Tx = chain[Len(chain)].tx
              /\ attestation.BlockHash = chain[Len(chain)].BlockHash
              /\ CommitmentHash(attestation) # ZeroRoot
              /\ \E i \in 1..Len(attestationCol) :
                    /\ attestationCol[i].txid = attestation.Txid
                    /\ attestationCol[i].merkle_root = CommitmentHash(attestation)
                    /\ attestationCol[i].confirmed
              /\ Len(Published) = 1
              /\ Published[1].op = "SendConfirmedHash"
              /\ Published[1].root = CommitmentHash(attestation)
              /\ state = ASTATE_NEXT_COMMITMENT
       /\ (StoredCommitmentTick /\ last.fault = "UpdateLatestAttestation") =>
              /\ state = ASTATE_ERROR
              /\ Published = <<>>

\* C15 (as claimed): in an Init tick on a first-ever run (no unconfirmed
\* transaction, the last unspent is the initial funding output, the Store has
\* no attestation record of its txid and no call is made to fail) the driver
\* sets a default attestation, sends the all-zero confirmed-hash, persists
\* nothing and moves to NextCommitment.
C15_FirstRunInitiatesStaychain ==
    ( /\ InitNoUnconfirmedTick(TRUE)
      /\ last.fault = NIL
      /\ LastUnspentTxid = InitTxid
      /\ \A i \in 1..Len(attestationCol) : attestationCol[i].txid # InitTxid )
    => /\ state = ASTATE_NEXT_COMMITMENT
       /\ attestation = NewAttestationDefault
       /\ Len(Published) = 1
       /\ Published[1].op = "SendConfirmedHash"
       /\ Published[1].root = ZeroRoot
       /\ ~LogHas("UpdateLatestAttestation")

\* the last tick was an Init tick of the wallet-failure branch
WalletFailureTick == InitNoUnconfirmedTick(FALSE)

\* C16: an Init tick in which the wallet reports neither an unconfirmed
\* transaction nor a last unspent, without error, leaves the state at Init and
\* the stored error, the Store and the attestation as they were, and sends
\* nothing to the signers; this holds for every such tick.
C16_WalletFailureStaysInit ==
    [][ (DriverTick /\ WalletFailureTick') =>
            /\ state' = ASTATE_INIT
            /\ errorState' = errorState
            /\ proc' = "running"
            /\ UNCHANGED <<storeVars, walletVars, hist, attestation, currentFee>>
            /\ Published' = <<>>
            /\ ~LogHas("UpdateLatestAttestation")' ]_vars

\* C16 witness: a wallet-failure tick that follows an earlier failure, whose
\* stored error is still there
C16_Witness ==
    /\ WalletFailureTick
    /\ state = ASTATE_INIT
    /\ errorState # NIL

\* the last tick was a NextCommitment tick in which the Store's latest client
\* commitment had another root than the current attestation
NewCommitmentTick ==
    /\ last.handler = ASTATE_NEXT_COMMITMENT
    /\ \E i \in 1..Len(last.log) :
          /\ last.log[i].op = "GetClientCommitment"
          /\ last.log[i].err = NIL
          /\ last.log[i].root # CommitmentHash(last.attestation)

\* C17: a NextCommitment tick in which the Store's latest client commitment
\* root differs from the root of the current attestation, and whose handler
\* returns, sends exactly one
\* message to the signers, new-hash with that root, replaces the current
\* attestation by a fresh one (zero txid, no transaction, not confirmed) that
\* holds that commitment, and moves to NewAttestation.
C17_NewCommitmentStartsAttestation ==
    (NewCommitmentTick /\ Returned) =>
        /\ Len(Published) = 1
        /\ Published[1].op = "SendNewHash"
        /\ Published[1].root = Events("GetClientCommitment")[1].root
        /\ attestation = [NewAttestationDefault EXCEPT !.commitment = attestation.commitment]
        /\ CommitmentHash(attestation) = Events("GetClientCommitment")[1].root
        /\ CommitmentHash(attestation) # CommitmentHash(last.attestation)
        /\ ~attestation.Confirmed
        /\ state = ASTATE_NEW_ATTESTATION

\* C17 witness: the attestation replaced was a confirmed one with its txid
C17_Witness ==
    /\ NewCommitmentTick
    /\ last.attestation.Confirmed
    /\ last.attestation.Txid # ZeroTxid
    /\ state = ASTATE_NEW_ATTESTATION

\* the last tick was a NewAttestation tick in which the wallet answered the
\* query for the last unspent without error (found or not)
NewAttestationUnspentTick(found) ==
    /\ last.handler = ASTATE_NEW_ATTESTATION
    /\ \E i \in 1..Len(last.log) :
          /\ last.log[i].op = "findLastUnspent"
          /\ last.log[i].err = NIL
          /\ last.log[i].flag = found

\* C18: a NewAttestation tick in which the wallet reports no last unspent
\* ends in Error with the error ERROR_UNSPENT_NOT_FOUND stored; no
\* transaction is built (the attestation is as before, no topup query, no
\* createAttestation) and nothing is published to the signers.
C18_UnspentNotFound ==
    NewAttestationUnspentTick(FALSE) =>
        /\ state = ASTATE_ERROR
        /\ errorState = ERROR_UNSPENT_NOT_FOUND
        /\ attestation = last.attestation
        /\ attestation.Tx = NoTx
        /\ ~LogHas("findTopupUnspent")
        /\ ~LogHas("createAttestation")
        /\ Published = <<>>

\* C18 witness: the wallet reported no last unspent and the tick failed
C18_Witness ==
    /\ NewAttestationUnspentTick(FALSE)
    /\ state = ASTATE_ERROR
    /\ errorState = ERROR_UNSPENT_NOT_FOUND

\* C19: a NewAttestation tick that builds the transaction, and whose handler
\* returns, spends the wallet's
\* last unspent as first input and the topup unspent as second input exactly
\* when one was found, pays to the address derived from the root of the
\* current attestation's commitment at the current fee rate, and is unsigned;
\* the transaction becomes the attestation's transaction (nothing else of the
\* attestation changes), is the one message published to the signers, the
\* state becomes SignAttestation and the handler sets the delay to ATIME_SIGS.
\* A NewAttestation tick reaches SignAttestation only this way.
C19_NewAttestationBuildsTx ==
    /\ (last.handler = ASTATE_NEW_ATTESTATION /\ LogOk("createAttestation") /\ Returned) =>
          /\ NewAttestationUnspentTick(TRUE)
          /\ LogOk("findTopupUnspent")
          /\ attestation.Tx.prev = LastUnspentTxid
          /\ attestation.Tx.prev = TxHash(chain[Len(chain)].tx)
          /\ attestation.Tx.topup = Events("findTopupUnspent")[1].flag
          /\ attestation.Tx.payto =
                GetNextAttestationAddr(
                    GetNextAttestationKey(CommitmentHash(last.attestation)),
                    CommitmentHash(last.attestation))
          /\ attestation.Tx.fee = last.fee
          /\ ~attestation.Tx.signed
          /\ attestation = [last.attestation EXCEPT !.Tx = attestation.Tx]
          /\ Len(Published) = 1
          /\ Published[1].op = "SendNewTx"
          /\ Published[1].txid = TxHash(attestation.Tx)
          /\ attestation.Tx \in hist.newTx
          /\ state = ASTATE_SIGN_ATTESTATION
          /\ last.delay = ATIME_SIGS
    /\ (last.handler = ASTATE_NEW_ATTESTATION /\ state = ASTATE_SIGN_ATTESTATION)
          => LogOk("createAttestation")

\* C19 witness: a transaction built with a topup input
C19_Witness ==
    /\ last.handler = ASTATE_NEW_ATTESTATION
    /\ LogOk("createAttestation")
    /\ attestation.Tx.topup
    /\ state = ASTATE_SIGN_ATTESTATION

\* C20 (as claimed): under fair ticking, after a NewAttestation tick that
\* failed for the commitment with root r, when no call fails any more and the
\* mempool and the wallet's unspents stay as they are, the driver comes back
\* to NewAttestation for the same commitment (unless the clients commit
\* something else meanwhile).
C20_NewAttestationRetried ==
    \A r \in Roots :
        ( /\ last.handler = ASTATE_NEW_ATTESTATION
          /\ state = ASTATE_ERROR
          /\ proc = "running"
          /\ faultsLeft = 0
          /\ mempool = {}
          /\ CommitmentHash(attestation) = r
          /\ LatestRoot = r )
        ~> ( \/ state = ASTATE_NEW_ATTESTATION /\ CommitmentHash(attestation) = r
             \/ LatestRoot # r )

\* C21: whenever the current attestation is marked confirmed, the handler of
\* the last tick having returned, its block hash is not empty, and every
\* attestation that was persisted with confirmed = true carried a non-empty
\* block hash; this covers the confirmations seen in AwaitConfirmation and the
\* attestations marked confirmed by Init's last-unspent branch.
C21_ConfirmedHasBlockHash ==
    /\ (attestation.Confirmed /\ Returned) => attestation.BlockHash # 0
    /\ \A p \in hist.persisted : p.confirmed => p.blockHash # 0
    /\ \A i \in 1..Len(attestationCol) :
          attestationCol[i].confirmed =>
              \E p \in hist.persisted :
                  /\ p.txid = attestationCol[i].txid
                  /\ p.root = attestationCol[i].merkle_root
                  /\ p.confirmed

\* C21 witness: an attestation confirmed in AwaitConfirmation has, after a
\* restart, been marked confirmed again by Init's last-unspent branch
C21_Witness ==
    /\ last.handler = ASTATE_INIT
    /\ Returned
    /\ attestation.Confirmed
    /\ attestation.BlockHash > 1
    /\ \E p \in hist.persisted :
          p.confirmed /\ p.txid = attestation.Txid /\ p.blockHash = attestation.BlockHash

\* C22: in the states PreSendStore, SendAttestation and AwaitConfirmation the
\* txid of the current attestation is the hash of its transaction, and so it
\* is in every attestation that was persisted; the txid recorded after a
\* broadcast is the one computed by SignAttestation and persisted, unconfirmed,
\* before the broadcast.
C22_TxidIsTxHash ==
    /\ state \in {ASTATE_PRE_SEND_STORE, ASTATE_SEND_ATTESTATION, ASTATE_AWAIT_CONFIRMATION}
          => attestation.Txid = TxHash(attestation.Tx)
    /\ \A p \in hist.persisted : p.txid = TxHash(p.tx)
    /\ \A b \in hist.broadcast :
          /\ b.txid = TxHash(b.tx)
          /\ \E p \in hist.persisted : ~p.confirmed /\ p.txid = b.txid /\ p.tx = b.tx
    /\ (last.handler = ASTATE_SEND_ATTESTATION /\ LogOk("sendAttestation"))
          => /\ attestation.Txid = last.attestation.Txid
             /\ attestation.Txid = Events("sendAttestation")[1].txid

\* C22 witness: the broadcast of a re-signed transaction, whose txid differs
\* from the one persisted on the first pass for the same commitment
C22_Witness ==
    /\ last.handler = ASTATE_SEND_ATTESTATION
    /\ LogOk("sendAttestation")
    /\ state = ASTATE_AWAIT_CONFIRMATION
    /\ \E p \in hist.persisted :
          /\ ~p.confirmed
          /\ p.root = CommitmentHash(attestation)
          /\ p.txid # attestation.Txid

\* C23 (as claimed): once the cancellation signal is raised the driver starts
\* no further state handler: the only step the service takes is the exit.
C23_NoHandlerAfterCancel ==
    [][ proc = "cancelled" => ~DriverTick ]_vars

\* C24: the delay before the first tick of a process is 30 s; every tick
\* starts from a delay of 5 s, so the handler leaves 5 s unless the tick made
\* one of the transitions that set their own delay; outside regtest the delay
\* before the next tick is what the handler left, in regtest it is 10 s after
\* every tick whose handler returned, whatever the handler left.
C24_DelaySchedule ==
    LET \* the last tick made one of the transitions that set their own delay,
        \* and the handler left that delay
        DelayOverridden ==
            \/ CaughtUpTick /\ last.delay = atimeNewAttestation
            \/ /\ last.handler \in {ASTATE_NEW_ATTESTATION, ASTATE_HANDLE_UNCONFIRMED}
               /\ state = ASTATE_SIGN_ATTESTATION
               /\ last.delay = ATIME_SIGS
            \/ /\ last.handler = ASTATE_SEND_ATTESTATION
               /\ state = ASTATE_AWAIT_CONFIRMATION
               /\ last.delay = ATIME_CONFIRMATION
            \/ /\ last.handler = ASTATE_AWAIT_CONFIRMATION
               /\ state = ASTATE_AWAIT_CONFIRMATION
               /\ last.delay = ATIME_CONFIRMATION
            \/ /\ last.handler = ASTATE_AWAIT_CONFIRMATION
               /\ state = ASTATE_NEXT_COMMITMENT
               /\ last.delay = atimeNewAttestation - last.since
    IN
    /\ last = NoTick => attestDelay = ATIME_STARTUP
    /\ last # NoTick =>
          /\ last.delay = ATIME_FIXED \/ DelayOverridden
          /\ last.handler \in {ASTATE_ERROR, ASTATE_INIT, ASTATE_SIGN_ATTESTATION,
                               ASTATE_PRE_SEND_STORE}
                => last.delay = ATIME_FIXED
          /\ state \in {ASTATE_ERROR, ASTATE_HANDLE_UNCONFIRMED} => last.delay = ATIME_FIXED
          /\ attestDelay = IF config.regtest /\ Returned THEN ATIME_REGTEST ELSE last.delay

\* C24 witness: a regtest tick whose handler set ATIME_CONFIRMATION and after
\* which the delay is 10 s
C24_Witness ==
    /\ config.regtest
    /\ last.handler = ASTATE_SEND_ATTESTATION
    /\ last.delay = ATIME_CONFIRMATION
    /\ attestDelay = ATIME_REGTEST

\* the number of times a line was logged by NewAttestService
RECURSIVE Count(_, _)
Count(log, line) ==
    IF log = <<>> THEN 0
    ELSE (IF Head(log) = line THEN 1 ELSE 0) + Count(Tail(log), line)

\* the service has been constructed
Constructed == proc \notin {"starting", "aborted"}

\* C25: for each of the two timing parameters on its own, a configured value
\* > 0 minutes is the schedule used, and any value <= 0 (0, or the -1 of an
\* absent key) gives the 60 minute default and exactly one warning for that
\* parameter in the start-up log; a value that is used logs no warning.
C25_TimingDefaults ==
    Constructed =>
        /\ atimeNewAttestation =
              IF config.newAttestationMinutes > 0
              THEN config.newAttestationMinutes * 60 ELSE 60 * 60
        /\ atimeHandleUnconfirmed =
              IF config.handleUnconfirmedMinutes > 0
              THEN config.handleUnconfirmedMinutes * 60 ELSE 60 * 60
        /\ Count(startupLog, WARNING_INVALID_ATIME_NEW_ATTESTATION_ARG) =
              IF config.newAttestationMinutes > 0 THEN 0 ELSE 1
        /\ Count(startupLog, WARNING_INVALID_ATIME_HANDLE_UNCONFIRMED_ARG) =
              IF config.handleUnconfirmedMinutes > 0 THEN 0 ELSE 1

\* C25 witness: the new-attestation key is absent and the handle-unconfirmed
\* value is configured: the first gets the default, the second is used
C25_Witness ==
    /\ Constructed
    /\ last # NoTick
    /\ config.newAttestationMinutes = -1
    /\ config.handleUnconfirmedMinutes = MaxMinutes
    /\ atimeNewAttestation = DEFAULT_ATIME_NEW_ATTESTATION
    /\ atimeHandleUnconfirmed = MaxMinutes * 60
    /\ Len(startupLog) = 1

\* C26: when InitTx does not parse as a hash the process aborts in
\* NewAttestService: it never runs, no state handler executes and nothing is
\* written to the Store, the wallet or the signers; with an InitTx that parses
\* the construction does not abort.
C26_BadInitTxAborts ==
    /\ [][ NewHashFromStr(config.initTx) # NIL =>
              /\ proc' \in {"starting", "aborted"}
              /\ UNCHANGED <<state, attestation, errorState, storeVars, walletVars,
                             last, hist>> ]_vars
    /\ [](NewHashFromStr(config.initTx) # NIL => last = NoTick)
    /\ [](proc = "aborted" => NewHashFromStr(config.initTx) # NIL)

\* C26 witness: the process has aborted on an InitTx of the right length
\* that is not hex
C26_Witness ==
    /\ proc = "aborted"
    /\ config.initTx.len = MaxHashStringSize
    /\ ~config.initTx.hex
    /\ last = NoTick

\* the Attestation documents with this txid and merkle_root
RecordsOf(col, txid, root) ==
    SelectSeq(col, LAMBDA d : d.txid = txid /\ d.merkle_root = root)

\* C27: UpdateLatestAttestation is an upsert keyed by (txid, commitment
\* root): however often a (txid, root) is persisted there is exactly one
\* Attestation document of it, carrying the confirmed flag of the last call
\* (so unconfirmed first and confirmed later leaves one confirmed document),
\* and a call leaves every document with another txid or root as it was.
C27_UpsertByTxidAndRoot ==
    /\ [](\A p \in hist.persisted : Len(RecordsOf(attestationCol, p.txid, p.root)) = 1)
    /\ [](\A i \in 1..Len(attestationCol) :
             \E p \in hist.persisted :
                 p.txid = attestationCol[i].txid /\ p.root = attestationCol[i].merkle_root)
    /\ [](LogOk("UpdateLatestAttestation") =>
             LET e == Events("UpdateLatestAttestation")[1]
                 recs == RecordsOf(attestationCol, e.txid, e.root)
             IN Len(recs) = 1 /\ recs[1].confirmed = e.flag)
    /\ [][ \A i \in 1..Len(attestationCol) :
              \/ \E j \in 1..Len(attestationCol') : attestationCol'[j] = attestationCol[i]
              \/ /\ LogOk("UpdateLatestAttestation")'
                 /\ attestationCol[i].txid = Events("UpdateLatestAttestation")[1].txid'
                 /\ attestationCol[i].merkle_root = Events("UpdateLatestAttestation")[1].root' ]_vars

\* C27 witness: a (txid, root) persisted unconfirmed and then confirmed, next
\* to documents of the same txid with another root and of another txid
C27_Witness ==
    /\ LogOk("UpdateLatestAttestation")
    /\ LET e == Events("UpdateLatestAttestation")[1]
       IN /\ e.flag
          /\ \E p \in hist.persisted : p.txid = e.txid /\ p.root = e.root /\ ~p.confirmed
          /\ \E i \in 1..Len(attestationCol) :
                attestationCol[i].txid = e.txid /\ attestationCol[i].merkle_root # e.root
          /\ \E i \in 1..Len(attestationCol) : attestationCol[i].txid # e.txid

C29_AttestationCommitmentKept ==
    \A p \in hist.persisted :
        LET r == getAttestationCommitment(attestationCol, latestCommitmentCol, p.txid)
        IN /\ r.err = NIL
           /\ GetCommitmentHash(r.commitment) = p.root
           /\ p.confirmed =>
                 r.commitment =
                     SortedByPosition({d \in merkleCommitmentCol : d.merkle_root = p.root})

\* C30: in every tick, a confirmed-hash with a non-zero root is sent to the
\* signers only after an UpdateLatestAttestation of that root with
\* confirmed = true has succeeded earlier in the same tick, and the Store
\* holds the confirmed record; in a tick in which the persist of a confirmed
\* attestation fails no confirmed-hash is sent.
C30_ConfirmedHashAfterPersist ==
    /\ \A i \in 1..Len(last.log) :
          (last.log[i].op = "SendConfirmedHash" /\ last.log[i].root # ZeroRoot) =>
              /\ \E j \in 1..(i - 1) :
                    /\ last.log[j].op = "UpdateLatestAttestation"
                    /\ last.log[j].err = NIL
                    /\ last.log[j].flag
                    /\ last.log[j].root = last.log[i].root
              /\ ConfirmedFor(last.log[i].root)
    /\ (\E j \in 1..Len(last.log) :
            /\ last.log[j].op = "UpdateLatestAttestation"
            /\ last.log[j].flag
            /\ last.log[j].err # NIL)
          => ~LogHas("SendConfirmedHash")

\* C30 witness: the attestation of a new client commitment is confirmed: the
\* AwaitConfirmation tick persisted it and then sent its root
C30_Witness ==
    /\ last.handler = ASTATE_AWAIT_CONFIRMATION
    /\ LogOk("UpdateLatestAttestation")
    /\ \E i \in 1..Len(last.log) :
          /\ last.log[i].op = "SendConfirmedHash"
          /\ last.log[i].root # ZeroRoot
          /\ last.log[i].root # GenesisRoot
          /\ Len(RecordsOf(attestationCol, last.attestation.Txid, last.log[i].root)) = 1

\* C31: ResetFee is called only by an AwaitConfirmation tick in which the
\* wallet reports a block hash and the persist of the confirmed attestation
\* succeeds (and by every such tick whose handler is not cut short), and
\* leaves the baseline fee; a HandleUnconfirmed tick whose bump
\* succeeds leaves BumpFee of the fee it started with; every other tick leaves
\* the fee rate as it was.  In particular an Init tick that finds the
\* attestation confirmed through the last unspent keeps the fee rate, bumped
\* or not.
C31_FeeChangedOnlyByResetAndBump ==
    last # NoTick =>
        /\ LogHas("ResetFee") =>
              /\ last.handler = ASTATE_AWAIT_CONFIRMATION
              /\ \E i \in 1..Len(last.log) :
                    /\ last.log[i].op = "GetTransaction"
                    /\ last.log[i].err = NIL
                    /\ last.log[i].flag
              /\ LogOk("UpdateLatestAttestation")
        /\ (AwaitTick(TRUE) /\ LogOk("UpdateLatestAttestation") /\ Returned)
              => LogHas("ResetFee")
        /\ LogHas("ResetFee") => currentFee = ResetFee(config.regtest)
        /\ (HandleTick /\ LogOk("bumpAttestationFees")) => currentFee = BumpFee(last.fee)
        /\ (~LogHas("ResetFee") /\ ~(HandleTick /\ LogOk("bumpAttestationFees")))
              => currentFee = last.fee
        /\ last.handler = ASTATE_INIT => (currentFee = last.fee /\ ~LogHas("ResetFee"))

\* C31 witness: after a failure, Init finds the fee-bumped attestation mined
\* as the last unspent, confirms it and leaves the fee rate above the baseline
C31_Witness ==
    /\ InitUnspentLoadedTick
    /\ LogOk("UpdateLatestAttestation")
    /\ state = ASTATE_NEXT_COMMITMENT
    /\ errorState # NIL
    /\ attestation.Tx.fee > FeeBaseline(config.regtest)
    /\ currentFee = attestation.Tx.fee

\* C32: a tick that ends in a failure exit (setFailure: the state is Error
\* and the error is stored) leaves the delay at the 5 s it started with, so
\* the delay before the next tick is 5 s, 10 s in regtest; the next tick is
\* the Error handler, which moves to Init and also leaves 5 s: the driver is
\* in Init two ticks after the failing one began.
C32_FailureKeepsDefaultDelay ==
    /\ []((last # NoTick /\ state = ASTATE_ERROR) =>
             /\ errorState # NIL
             /\ last.handler # ASTATE_ERROR
             /\ last.delay = ATIME_FIXED
             /\ attestDelay = IF config.regtest THEN ATIME_REGTEST ELSE ATIME_FIXED)
    /\ [][ (state = ASTATE_ERROR /\ DriverTick) =>
              /\ state' = ASTATE_INIT
              /\ last'.handler = ASTATE_ERROR
              /\ last'.delay = ATIME_FIXED
              /\ attestDelay' = IF config.regtest THEN ATIME_REGTEST ELSE ATIME_FIXED ]_vars

\* C32 witness: outside regtest the Error handler has just run after a
\* SendAttestation tick whose broadcast failed: the driver is in Init and the
\* delay is 5 s, not the confirmation waiting time
C32_Witness ==
    /\ ~config.regtest
    /\ last.handler = ASTATE_ERROR
    /\ state = ASTATE_INIT
    /\ errorState = ErrorOf("sendAttestation")
    /\ attestDelay = ATIME_FIXED
    /\ \E p \in hist.persisted : p.txid = TxHash(attestation.Tx) /\ ~p.confirmed

====
